---------------------------- MODULE Spec2Model ----------------------------
(***************************************************************************)
(* Model of the CogniCode agent streaming pipeline:                        *)
(*   src/agents/agent_server.py  StreamCapture, get_agent_response_stream  *)
(*                               (flush_current, process_line, run_agent)  *)
(*   src/agents/agent_ui.py      _stream_from_backend (frame decoder)      *)
(*                                                                         *)
(* Text is modelled as a sequence of tokens.  A token stands for the       *)
(* literal characters of its name; the token ESC stands for one ANSI       *)
(* escape sequence (bytes 1B 5B 30 6D) and NL for the line break.  No      *)
(* concatenation of tokens of the alphabet creates a marker that is not    *)
(* one of the tokens, except that "Finished chain." contains "chain".      *)
(* The token NestedESC stands for an ANSI sequence written inside the      *)
(* bytes of another (1B 1B 5B 30 6D 5B 30 6D): removing the sequence the   *)
(* pattern finds leaves the bytes of the outer one.                        *)
(***************************************************************************)
EXTENDS Integers, Sequences, FiniteSets, TLC

VARIABLES
    agent_executor,  \* module global _agent_executor: "None" or "engine"
    pc,              \* position of the generator get_agent_response_stream
    thread,          \* agent_thread: "unstarted","running","blocked","returned","raised"
    agent_error,     \* agent_error dict: "None" or the exception stored under 'error'
    exc,             \* exception caught by the generator's except clause, or "None"
    buffer,          \* StreamCapture.buffer
    line_queue,      \* line_queue: FIFO of [line, n]; n is the write index (history)
    capturing,       \* classifier state
    current_tag,
    current_lines,
    out,             \* frames yielded so far, as the dicts given to json.dumps
    written,         \* history: complete lines written by the producer, in order
    log,             \* history: per line passed to process_line, in order: its write
                     \*   index n, the return taken, capturing before the call,
                     \*   current_tag after it and the content it put into
                     \*   current_lines (<<>> if none)
    current_open,    \* history: write index of the line that set current_tag (0: none)
    current_src,     \* history: write indices of the lines held in current_lines
    prov,            \* history: per frame of out, where it came from
    chunks,          \* history: the strings passed to StreamCapture.write, in order
    sys_stdout,      \* sys.stdout of the process: "original" or the StreamCapture
                     \*   of a session
    sessions,        \* the sessions that share the process, per session: its
                     \*   StreamCapture, its queue and the position of its producer
    net,             \* decoder: response text not yet delivered
    dbuffer,         \* decoder: buffer of _stream_from_backend
    event_queue,     \* decoder: asyncio queue of decoded events
    frames,          \* decoder history: the delimited frames sent
    dpc,             \* decoder task: "idle" (not created), "connecting",
                     \*   "reading", "closing" (leaving 'async with', line 53),
                     \*   "closed" (done), "cancelled"
    sent,            \* history: the Events the server encoded into the response
    fed,             \* history: whether the session keeps its input history, and
                     \*   if so the text the decoder task has read so far and how
                     \*   the reading ended
    apc,             \* position of the generator stream_agent_response: "idle",
                     \*   "started" (suspended at line 73), "waiting" (in the
                     \*   loop), "leaving" (suspended at the yield of the last
                     \*   triple), "done"
    thoughts_log,
    context_log,
    final_answer,
    timeout_counter,
    received_events,
    yields,          \* the (thoughts, answer, context) triples yielded so far
    applied,         \* history: the events got from the queue, in order
    ticks,           \* history of the waits of line 89, in order, kept where
                     \*   fed says so: see GotEvent, Timeouts, Waited
    first            \* where two calls of stream_agent_response with the
                     \*   same input are compared: the input and the output of
                     \*   the first call, once it has ended

pumpVars == <<agent_executor, pc, thread, agent_error, exc, buffer, line_queue,
              capturing, current_tag, current_lines, out, written, log,
              current_open, current_src, prov, chunks, sys_stdout, sessions,
              first>>
capVars == <<chunks, sys_stdout, sessions, first>>
decVars == <<net, dbuffer, event_queue, frames, dpc>>
uiVars == <<apc, thoughts_log, context_log, final_answer, timeout_counter,
            received_events, yields, applied, ticks>>
vars == <<agent_executor, pc, thread, agent_error, exc, buffer, line_queue,
          capturing, current_tag, current_lines, out, written, log,
          current_open, current_src, prov, chunks, sys_stdout, sessions,
          net, dbuffer, event_queue, frames, dpc,
          sent, fed, apc, thoughts_log, context_log, final_answer,
          timeout_counter, received_events, yields, applied, ticks, first>>

-----------------------------------------------------------------------------
(* Bounds *)

\* lines the producer writes in one session
MaxLines == 4

\* lines the producer writes in a session of several capture windows
MaxWindowLines == 5

-----------------------------------------------------------------------------
(* Tokens *)

NL == "\n"
WS == " "
ESC == "ESC[0m"
NestedESC == "ESC(ESC[0m)[0m"
None == "None"

\* str.strip() whitespace
IsSpace(t) == t \in {WS, NL}

RECURSIVE lstrip(_)
lstrip(s) == IF s = <<>> THEN <<>>
             ELSE IF IsSpace(Head(s)) THEN lstrip(Tail(s)) ELSE s

RECURSIVE rstrip(_)
rstrip(s) == IF s = <<>> THEN <<>>
             ELSE IF IsSpace(s[Len(s)]) THEN rstrip(SubSeq(s, 1, Len(s) - 1)) ELSE s

strip(s) == rstrip(lstrip(s))

\* ansi_escape.sub('', s): one pass over s; the sequences found are
\* removed, and what is left of a nested one is again a sequence
IsNotEsc(t) == t # ESC
ansi_escape_sub(s) ==
    LET r == SelectSeq(s, IsNotEsc) IN
    [i \in DOMAIN r |-> IF r[i] = NestedESC THEN ESC ELSE r[i]]

\* marker in s (substring test); "Finished chain." contains "chain"
TokenHas(t, marker) == t = marker \/ (marker = "chain" /\ t = "Finished chain.")
Contains(s, marker) == \E i \in 1..Len(s) : TokenHas(s[i], marker)

\* s.startswith(p), p one token
startswith(s, p) == Len(s) >= 1 /\ s[1] = p

\* index of the first NL of s, 0 if none
RECURSIVE FindNL(_, _)
FindNL(s, i) == IF i > Len(s) THEN 0
                ELSE IF s[i] = NL THEN i ELSE FindNL(s, i + 1)

\* "\n".join(lines)
RECURSIVE join(_)
join(lines) == IF lines = <<>> THEN <<>>
               ELSE IF Len(lines) = 1 THEN lines[1]
               ELSE lines[1] \o <<NL>> \o join(Tail(lines))

-----------------------------------------------------------------------------
(* Classifier: flush_current and process_line *)

\* the elif chain of process_line, in its order
TagPrefixes == << [p |-> "Thought:",      tag |-> "thought"],
                  [p |-> "Action:",       tag |-> "action"],
                  [p |-> "Action Input:", tag |-> "action_input"],
                  [p |-> "Observation:",  tag |-> "observation"],
                  [p |-> "STDOUT:",       tag |-> "observation"],
                  [p |-> "STDERR:",       tag |-> "observation"],
                  [p |-> "CONTEXT:",      tag |-> "observation"],
                  [p |-> "Final Answer:", tag |-> "final_answer_end"] >>

RECURSIVE MatchFrom(_, _)
MatchFrom(line, i) ==
    IF i > Len(TagPrefixes) THEN [tag |-> None, content |-> line]
    ELSE IF startswith(line, TagPrefixes[i].p)
         THEN [tag |-> TagPrefixes[i].tag, content |-> strip(Tail(line))]
         ELSE MatchFrom(line, i + 1)

\* tag and content as computed by lines 168-193
MatchTag(line) == MatchFrom(line, 1)

\* flush_current(): <<>> for None, else the one frame
flush_current(tag, lines) ==
    IF tag # None /\ lines # <<>>
    THEN LET data == strip(join(lines)) IN
         IF data # <<>>
         THEN << [type |-> tag, content |-> ansi_escape_sub(data)] >>
         ELSE <<>>
    ELSE <<>>

\* lines 164-204: tag transition or continuation, while capturing
tag_step(line, st) ==
    LET m == MatchTag(line) IN
    IF m.tag # None
    THEN [st  |-> [st EXCEPT !.current_tag = m.tag,
                             !.current_lines = IF m.content # <<>>
                                               THEN <<m.content>> ELSE <<>>],
          msg |-> flush_current(st.current_tag, st.current_lines),
          ret |-> 200]
    ELSE [st  |-> [st EXCEPT !.current_lines = Append(st.current_lines, m.content)],
          msg |-> <<>>,
          ret |-> 204]

\* lines 145 and 150: the line as the classifier sees it
clean_line(raw) == ansi_escape_sub(strip(raw))

\* variant: the test of line 161 is missing
process_line_NoIdleCheck(raw, st) ==
    IF strip(raw) = <<>>
    THEN [st |-> st, msg |-> <<>>, ret |-> 147]
    ELSE
    LET line == clean_line(raw) IN
    IF Contains(line, "Entering new") /\ Contains(line, "chain")
    THEN [st |-> [st EXCEPT !.capturing = TRUE], msg |-> <<>>, ret |-> 155]
    ELSE IF Contains(line, "Finished chain.") /\ st.capturing
    THEN [st  |-> [st EXCEPT !.capturing = FALSE],
          msg |-> flush_current(st.current_tag, st.current_lines),
          ret |-> 160]
    ELSE tag_step(line, st)

\* process_line(line) on classifier state st; ret is the source line of the
\* return statement taken, msg is <<>> for None
process_line(raw, st) ==
    IF strip(raw) = <<>>
    THEN [st |-> st, msg |-> <<>>, ret |-> 147]
    ELSE
    LET line == clean_line(raw) IN
    IF Contains(line, "Entering new") /\ Contains(line, "chain")
    THEN [st |-> [st EXCEPT !.capturing = TRUE], msg |-> <<>>, ret |-> 155]
    ELSE IF Contains(line, "Finished chain.") /\ st.capturing
    THEN [st  |-> [st EXCEPT !.capturing = FALSE],
          msg |-> flush_current(st.current_tag, st.current_lines),
          ret |-> 160]
    ELSE IF ~st.capturing
    THEN [st |-> st, msg |-> <<>>, ret |-> 162]
    ELSE tag_step(line, st)

\* classifier state at line 129-131
st_init == [capturing |-> FALSE, current_tag |-> None, current_lines |-> <<>>]

\* process_line applied to lines in order from state st: the frames
\* returned, in order, and the state left
RECURSIVE ClassifyAll(_, _, _)
ClassifyAll(lines, st, acc) ==
    IF lines = <<>> THEN [st |-> st, msgs |-> acc]
    ELSE LET r == process_line(Head(lines), st) IN
         ClassifyAll(Tail(lines), r.st, acc \o r.msg)

-----------------------------------------------------------------------------
(* StreamCapture *)

\* lines 109-110, one pass of the while loop of StreamCapture.write for a
\* buffer that holds a line break: the text before the first line break is
\* put as a line and the buffer keeps the text after it; q is the queue, n
\* the write index of the last line put so far
split_put(buf, q, n) ==
    LET i == FindNL(buf, 1) IN
    [buffer |-> SubSeq(buf, i + 1, Len(buf)),
     queue |-> Append(q, [line |-> SubSeq(buf, 1, i - 1), n |-> n + 1]),
     line |-> SubSeq(buf, 1, i - 1),
     n |-> n + 1]

\* the while loop of StreamCapture.write run to its end: every complete
\* line is put
RECURSIVE SplitLines(_, _, _)
SplitLines(buf, q, n) ==
    IF FindNL(buf, 1) = 0 THEN [buffer |-> buf, queue |-> q, n |-> n]
    ELSE LET r == split_put(buf, q, n) IN SplitLines(r.buffer, r.queue, r.n)

\* variant: the text kept from the writes before is forgotten
buffer_add_NoCarry(buf, s) == s

\* line 105: self.buffer += s
buffer_add(buf, s) == buf \o s

\* StreamCapture.write(s), the whole call
StreamCapture_write(buf, q, n, s) == SplitLines(buffer_add(buf, s), q, n)

\* variant: the queue hands out the newest line first
queue_get_Lifo(q) == [item |-> q[Len(q)], rest |-> SubSeq(q, 1, Len(q) - 1)]

\* line_queue.get(): the item removed and the queue left
queue_get(q) == [item |-> Head(q), rest |-> Tail(q)]

-----------------------------------------------------------------------------
(* Lines the producer writes *)

LineSet == { <<"Entering new", WS, "chain">>,
             <<"Finished chain.">>,
             <<"Thought:", WS, "x">>,
             <<"Action:">>,
             <<"y">>,
             <<WS>>,
             <<ESC, WS, "y", ESC>>,
             <<"Thought:", WS, NestedESC>>,
             <<ESC>> }

\* lines of a trace with several capture windows
WindowLineSet == { <<"Entering new", WS, "chain">>,
                   <<"Finished chain.">>,
                   <<"Thought:", WS, "x">>,
                   <<"Action:">>,
                   <<"y">> }

\* exceptions agent_executor.invoke may raise
Errors == { "boom" }

\* f'Agent execution failed: {e}'
ErrorContent(e) == <<"Agent execution failed: ", e>>

\* the requests served by the process at the same time
\* no call of stream_agent_response has been kept for a comparison
NoCall == [set |-> FALSE,
           fed |-> [kept |-> FALSE, waits |-> FALSE, text |-> <<>>,
                    end |-> None],
           ticks |-> <<>>, events |-> <<>>, yields |-> <<>>]

SessionIds == { "A", "B" }

\* the two threads of a session: "g", the event loop while it runs the
\* generator get_agent_response_stream, and "p", the producer thread
Roles == { "g", "p" }

\* a thread that has not begun: its position, and for a call of print the
\* position it returns to, the stream the call found in sys.stdout, the
\* strings it has still to write and the calls of StreamCapture.write open
thread_init == [pc |-> "idle", after |-> "idle", file |-> None,
                todo |-> <<>>, stack |-> <<>>]

\* a session before get_agent_response_stream is called for it: no
\* StreamCapture yet (lines 126-127), producer thread not started
session_init == [original |-> None, old |-> None, buffer |-> <<>>,
                 queue |-> <<>>, got |-> <<>>, printed |-> 0,
                 error |-> FALSE, th |-> [r \in Roles |-> thread_init]]

-----------------------------------------------------------------------------
(* Initial state *)

PumpInit ==
    /\ agent_executor = None
    /\ pc = "start"
    /\ thread = "unstarted"
    /\ agent_error = None
    /\ exc = None
    /\ buffer = <<>>
    /\ line_queue = <<>>
    /\ capturing = FALSE
    /\ current_tag = None
    /\ current_lines = <<>>
    /\ out = <<>>
    /\ written = <<>>
    /\ log = <<>>
    /\ current_open = 0
    /\ current_src = <<>>
    /\ prov = <<>>
    /\ chunks = <<>>
    /\ sys_stdout = "original"
    /\ sessions = [i \in SessionIds |-> session_init]
    /\ first = NoCall

DecoderIdle ==
    /\ net = <<>>
    /\ dbuffer = <<>>
    /\ event_queue = <<>>
    /\ frames = <<>>
    /\ dpc = "idle"

\* stream_agent_response has not been called
\* no input history is kept
NoHistory == [kept |-> FALSE, waits |-> FALSE, text |-> <<>>, end |-> None]

AccIdle ==
    /\ apc = "idle"
    /\ thoughts_log = <<>>
    /\ context_log = <<>>
    /\ final_answer = <<>>
    /\ timeout_counter = 0
    /\ received_events = FALSE
    /\ yields = <<>>
    /\ applied = <<>>

UiIdle ==
    /\ sent = <<>>
    /\ fed = NoHistory
    /\ ticks = <<>>
    /\ AccIdle

Init == PumpInit /\ DecoderIdle /\ UiIdle

-----------------------------------------------------------------------------
(* Producer thread: run_agent *)

is_alive == thread \in {"running", "blocked"}

\* agent_executor.invoke prints one line of the trace (redirected to
\* stream_capture); the line is one of lines and at most max are written
ProducerWriteFrom(lines, max) ==
    /\ thread = "running"
    /\ Len(written) < max
    /\ \E l \in lines :
         LET r == StreamCapture_write(buffer, line_queue, Len(written), l \o <<NL>>) IN
         /\ buffer' = r.buffer
         /\ line_queue' = r.queue
         /\ written' = Append(written, l)
         /\ chunks' = Append(chunks, l \o <<NL>>)
    /\ UNCHANGED <<agent_executor, pc, thread, agent_error, exc, capturing,
                   current_tag, current_lines, out, log, current_open,
                   current_src, prov>>
    /\ UNCHANGED <<decVars, sent, fed, uiVars, sys_stdout, sessions, first>>

ProducerWrite == ProducerWriteFrom(LineSet, MaxLines)

\* a trace of several capture windows
ProducerWriteWindows == ProducerWriteFrom(WindowLineSet, MaxWindowLines)

\* invoke returns: agent_result['data'] = result
ProducerReturn ==
    /\ thread = "running"
    /\ thread' = "returned"
    /\ UNCHANGED <<agent_executor, pc, agent_error, exc, buffer, line_queue,
                   capturing, current_tag, current_lines, out, written,
                   log, current_open, current_src, prov>>
    /\ UNCHANGED <<decVars, sent, fed, uiVars, capVars>>

\* invoke raises: agent_error['error'] = e
ProducerRaise ==
    /\ thread = "running"
    /\ \E e \in Errors : agent_error' = e
    /\ thread' = "raised"
    /\ UNCHANGED <<agent_executor, pc, exc, buffer, line_queue,
                   capturing, current_tag, current_lines, out, written,
                   log, current_open, current_src, prov>>
    /\ UNCHANGED <<decVars, sent, fed, uiVars, capVars>>

\* invoke blocks for ever (a call of the engine that never returns)
ProducerBlock ==
    /\ thread = "running"
    /\ thread' = "blocked"
    /\ UNCHANGED <<agent_executor, pc, agent_error, exc, buffer, line_queue,
                   capturing, current_tag, current_lines, out, written,
                   log, current_open, current_src, prov>>
    /\ UNCHANGED <<decVars, sent, fed, uiVars, capVars>>

-----------------------------------------------------------------------------
(* Generator get_agent_response_stream *)

st_now == [capturing |-> capturing, current_tag |-> current_tag,
           current_lines |-> current_lines]

\* history: the content a call of process_line put into current_lines
Kept(r) == IF r.ret \in {200, 204} /\ r.st.current_lines # <<>>
           THEN r.st.current_lines[Len(r.st.current_lines)]
           ELSE <<>>

\* history kept with a frame: open, src = the block it carries; at = write
\* index of the line whose processing yielded it (0: not a line);
\* cap = capturing when the emission was decided
Prov(open, src, at, cap) == [open |-> open, src |-> src, at |-> at, cap |-> cap]

\* line 124: get_agent_executor(), outside the try statement
GetExecutor ==
    /\ pc = "start"
    /\ \E ok \in BOOLEAN :
         IF ok THEN /\ agent_executor' = "engine"
                    /\ pc' = "spawn"
               ELSE /\ agent_executor' = agent_executor
                    /\ pc' = "propagated"
    /\ UNCHANGED <<thread, agent_error, exc, buffer, line_queue, capturing,
                   current_tag, current_lines, out, written, log,
                   current_open, current_src, prov>>
    /\ UNCHANGED <<decVars, sent, fed, uiVars, capVars>>

\* lines 219-220: agent_thread.start(); a start that fails is caught at 258
StartThread ==
    /\ pc = "spawn"
    /\ \E ok \in BOOLEAN :
         IF ok THEN /\ thread' = "running"
                    /\ pc' = "loop"
                    /\ exc' = exc
               ELSE /\ thread' = thread
                    /\ pc' = "except"
                    /\ exc' = "can't start new thread"
    /\ UNCHANGED <<agent_executor, agent_error, buffer, line_queue, capturing,
                   current_tag, current_lines, out, written, log,
                   current_open, current_src, prov>>
    /\ UNCHANGED <<decVars, sent, fed, uiVars, capVars>>

\* lines 223-229: one iteration of the loop that gets a line.  The Empty
\* branch (230-232) changes nothing and is a stuttering step.
PumpLine ==
    /\ pc = "loop"
    /\ line_queue # <<>>
    /\ LET g == queue_get(line_queue)
           r == process_line(g.item.line, st_now)
           n == g.item.n
       IN
       /\ line_queue' = g.rest
       /\ capturing' = r.st.capturing
       /\ current_tag' = r.st.current_tag
       /\ current_lines' = r.st.current_lines
       /\ out' = out \o r.msg
       /\ log' = Append(log, [n |-> n, ret |-> r.ret, cap |-> capturing,
                              tag |-> r.st.current_tag, content |-> Kept(r)])
       /\ prov' = IF r.msg # <<>>
                  THEN Append(prov, Prov(current_open, current_src, n, capturing))
                  ELSE prov
       /\ current_open' = IF r.ret = 200 THEN n ELSE current_open
       /\ current_src' = IF r.ret = 200
                         THEN (IF r.st.current_lines # <<>> THEN <<n>> ELSE <<>>)
                         ELSE IF r.ret = 204 THEN Append(current_src, n)
                         ELSE current_src
    /\ UNCHANGED <<agent_executor, pc, thread, agent_error, exc, buffer, written>>
    /\ UNCHANGED <<decVars, sent, fed, uiVars, capVars>>

\* variant: the loop is left as soon as the thread has finished
PumpAfterLoop_NoEmptyTest ==
    /\ pc = "loop"
    /\ ~is_alive
    /\ IF agent_error # None
       THEN /\ pc' = "except"
            /\ exc' = agent_error
       ELSE /\ pc' = "flush"
            /\ exc' = exc
    /\ UNCHANGED <<agent_executor, thread, agent_error, buffer, line_queue,
                   capturing, current_tag, current_lines, out, written,
                   log, current_open, current_src, prov>>
    /\ UNCHANGED <<decVars, sent, fed, uiVars, capVars>>

\* lines 223, 235-249: the loop test fails (thread finished and queue
\* empty), the drain loop finds the queue empty, join returns at once, and
\* a stored producer error is raised
PumpAfterLoop ==
    /\ pc = "loop"
    /\ ~is_alive
    /\ line_queue = <<>>
    /\ IF agent_error # None
       THEN /\ pc' = "except"
            /\ exc' = agent_error
       ELSE /\ pc' = "flush"
            /\ exc' = exc
    /\ UNCHANGED <<agent_executor, thread, agent_error, buffer, line_queue,
                   capturing, current_tag, current_lines, out, written,
                   log, current_open, current_src, prov>>
    /\ UNCHANGED <<decVars, sent, fed, uiVars, capVars>>

\* lines 252-254: flush last block
FinalFlush ==
    /\ pc = "flush"
    /\ LET msg == flush_current(current_tag, current_lines) IN
       /\ out' = out \o msg
       /\ prov' = IF msg # <<>>
                  THEN Append(prov, Prov(current_open, current_src, 0, capturing))
                  ELSE prov
    /\ pc' = "end"
    /\ UNCHANGED <<agent_executor, thread, agent_error, exc, buffer, line_queue,
                   capturing, current_tag, current_lines, written, log,
                   current_open, current_src>>
    /\ UNCHANGED <<decVars, sent, fed, uiVars, capVars>>

\* line 256
YieldStreamEnd ==
    /\ pc = "end"
    /\ out' = Append(out, [type |-> "stream_end"])
    /\ prov' = Append(prov, Prov(0, <<>>, 0, capturing))
    /\ pc' = "done"
    /\ UNCHANGED <<agent_executor, thread, agent_error, exc, buffer, line_queue,
                   capturing, current_tag, current_lines, written, log,
                   current_open, current_src>>
    /\ UNCHANGED <<decVars, sent, fed, uiVars, capVars>>

\* lines 258-260
YieldError ==
    /\ pc = "except"
    /\ out' = Append(out, [type |-> "error", content |-> ErrorContent(exc)])
    /\ prov' = Append(prov, Prov(0, <<>>, 0, capturing))
    /\ pc' = "except_end"
    /\ UNCHANGED <<agent_executor, thread, agent_error, exc, buffer, line_queue,
                   capturing, current_tag, current_lines, written, log,
                   current_open, current_src>>
    /\ UNCHANGED <<decVars, sent, fed, uiVars, capVars>>

\* line 261
YieldStreamEndAfterError ==
    /\ pc = "except_end"
    /\ out' = Append(out, [type |-> "stream_end"])
    /\ prov' = Append(prov, Prov(0, <<>>, 0, capturing))
    /\ pc' = "done"
    /\ UNCHANGED <<agent_executor, thread, agent_error, exc, buffer, line_queue,
                   capturing, current_tag, current_lines, written, log,
                   current_open, current_src>>
    /\ UNCHANGED <<decVars, sent, fed, uiVars, capVars>>

Next ==
    \/ GetExecutor
    \/ StartThread
    \/ ProducerWrite
    \/ ProducerReturn
    \/ ProducerRaise
    \/ ProducerBlock
    \/ PumpLine
    \/ PumpAfterLoop
    \/ FinalFlush
    \/ YieldStreamEnd
    \/ YieldError
    \/ YieldStreamEndAfterError

Spec == Init /\ [][Next]_vars

\* sessions whose trace has room for a second capture window
NextWindows ==
    \/ GetExecutor
    \/ StartThread
    \/ ProducerWriteWindows
    \/ ProducerReturn
    \/ ProducerRaise
    \/ ProducerBlock
    \/ PumpLine
    \/ PumpAfterLoop
    \/ FinalFlush
    \/ YieldStreamEnd
    \/ YieldError
    \/ YieldStreamEndAfterError

WindowsSpec == Init /\ [][NextWindows]_vars

TypeOK ==
    /\ pc \in {"start", "spawn", "loop", "flush", "end", "except", "except_end",
               "done", "propagated"}
    /\ thread \in {"unstarted", "running", "blocked", "returned", "raised"}
    /\ capturing \in BOOLEAN
    /\ Len(out) = Len(prov)

-----------------------------------------------------------------------------
(* Wire format: json.dumps and json.loads on the token alphabet *)

JOpen == "{\"type\": \""
JMid == "\", \"content\": \""
JClose == "\"}"
JsonSyntax == {JOpen, JMid, JClose}

\* a JSON text that is no object: the number 3; as a value it is written
\* [scalar |-> "3"]
JNumber == "3"
is_dict(v) == "scalar" \notin DOMAIN v

\* the double quote
Q == "\""

\* variant: the line break is written as it is
EscapeToken_KeepNL(t) == IF t = ESC THEN "\\u001b[0m"
                         ELSE IF t = Q THEN "\\\""
                         ELSE t

\* a character json.dumps writes as an escape: the line break, the escape
\* character and the double quote
EscapeToken(t) == IF t = NL THEN "\\n"
                  ELSE IF t = ESC THEN "\\u001b[0m"
                  ELSE IF t = Q THEN "\\\""
                  ELSE t
UnescapeToken(t) == IF t = "\\n" THEN NL
                    ELSE IF t = "\\u001b[0m" THEN ESC
                    ELSE IF t = "\\\"" THEN Q
                    ELSE t

\* json.dumps(d) for d = {'type': .., 'content': ..} or {'type': ..}
json_dumps(d) ==
    IF ~is_dict(d) THEN <<d.scalar>>
    ELSE IF "content" \in DOMAIN d
    THEN <<JOpen, d.type, JMid>>
           \o [i \in DOMAIN d.content |-> EscapeToken(d.content[i])]
           \o <<JClose>>
    ELSE <<JOpen, d.type, JClose>>

\* text allowed inside a JSON string: no raw control character, no quote
InString(t) == t \notin JsonSyntax /\ t # NL /\ t # ESC /\ t # Q

\* json.loads(text): ok is FALSE for JSONDecodeError.  Surrounding
\* whitespace is skipped; the texts of the model carry no whitespace
\* between the syntax tokens.
json_loads(text) ==
    LET t == strip(text) IN
    IF t = <<JNumber>>
    THEN [ok |-> TRUE, value |-> [scalar |-> JNumber]]
    ELSE IF Len(t) = 3 /\ t[1] = JOpen /\ InString(t[2]) /\ t[3] = JClose
    THEN [ok |-> TRUE, value |-> [type |-> t[2]]]
    ELSE IF /\ Len(t) >= 4
            /\ t[1] = JOpen /\ InString(t[2]) /\ t[3] = JMid /\ t[Len(t)] = JClose
            /\ \A i \in 4..(Len(t) - 1) : InString(t[i])
    THEN [ok |-> TRUE,
          value |-> [type |-> t[2],
                     content |-> [i \in 1..(Len(t) - 4) |-> UnescapeToken(t[i + 3])]]]
    ELSE [ok |-> FALSE, value |-> None]

-----------------------------------------------------------------------------
(* Frame decoder: _stream_from_backend *)

\* index of the first "\n\n" of s, 0 if none
RECURSIVE FindNLNL(_, _)
FindNLNL(s, i) == IF i + 1 > Len(s) THEN 0
                  ELSE IF s[i] = NL /\ s[i + 1] = NL THEN i
                  ELSE FindNLNL(s, i + 1)

\* lines 31-40: one frame cut from the buffer; the events to put
decode_frame(raw) ==
    LET line == strip(raw) IN
    IF line # <<>> /\ startswith(line, "data: ")
    THEN LET r == json_loads(Tail(line)) IN
         IF r.ok THEN <<r.value>> ELSE <<>>
    ELSE <<>>

\* variant: a frame that does not decode ends the loop, the rest of the
\* buffer is dropped
RECURSIVE DecodeFrames_StopOnMalformed(_, _)
DecodeFrames_StopOnMalformed(buf, q) ==
    LET i == FindNLNL(buf, 1) IN
    IF i = 0 THEN [buffer |-> buf, queue |-> q]
    ELSE IF decode_frame(SubSeq(buf, 1, i - 1)) = <<>>
         THEN [buffer |-> <<>>, queue |-> q]
         ELSE DecodeFrames_StopOnMalformed(SubSeq(buf, i + 2, Len(buf)),
                                           q \o decode_frame(SubSeq(buf, 1, i - 1)))

\* lines 29-40: the while loop over the complete frames of the buffer
RECURSIVE DecodeFrames(_, _)
DecodeFrames(buf, q) ==
    LET i == FindNLNL(buf, 1) IN
    IF i = 0 THEN [buffer |-> buf, queue |-> q]
    ELSE DecodeFrames(SubSeq(buf, i + 2, Len(buf)),
                      q \o decode_frame(SubSeq(buf, 1, i - 1)))

\* a byte that is not valid UTF-8
BadByte == "\\xff"

\* chunk.decode("utf-8") succeeds
Utf8Ok(chunk) == \A i \in DOMAIN chunk : chunk[i] # BadByte

\* frames per response
MaxFrames == 3

\* frames a response may carry: two well-formed ones, a truncated payload,
\* a payload without the prefix, two payloads separated by one line break,
\* a well-formed one with white space around it, and an empty one
FrameSet ==
    { <<"data: ">> \o json_dumps([type |-> "final_answer_end", content |-> <<"x">>]),
      <<"data: ">> \o json_dumps([type |-> "stream_end"]),
      <<"data: ", JOpen, "thought">>,
      json_dumps([type |-> "stream_end"]),
      <<"data: ">> \o json_dumps([type |-> "stream_end"])
          \o <<NL, "data: ">> \o json_dumps([type |-> "stream_end"]),
      <<NL, WS, "data: ">> \o json_dumps([type |-> "thought", content |-> <<"y">>]) \o <<WS>>,
      <<>> }

\* the response body: each frame followed by a blank line
RECURSIVE Wire(_)
Wire(fs) == IF fs = <<>> THEN <<>>
            ELSE Head(fs) \o <<NL, NL>> \o Wire(Tail(fs))

\* line 22 reached: the backend answered with a status below 400 and sends
\* some frames
DecoderInit ==
    /\ PumpInit
    /\ UiIdle
    /\ frames \in UNION { [1..k -> FrameSet] : k \in 0..MaxFrames }
    /\ net = Wire(frames)
    /\ dbuffer = <<>>
    /\ event_queue = <<>>
    /\ dpc = "reading"

\* input history h when the chunk has been read, and when the reading has
\* ended with end (a status or an exception), where a history is kept
Fed(h, chunk) == IF h.kept THEN [h EXCEPT !.text = @ \o chunk] ELSE h
Ended(h, end) == IF h.kept THEN [h EXCEPT !.end = end] ELSE h

\* lines 23-44: one transport chunk
ReceiveChunk ==
    /\ dpc = "reading"
    /\ net # <<>>
    /\ \E k \in 1..Len(net) :
         LET chunk == SubSeq(net, 1, k) IN
         /\ net' = SubSeq(net, k + 1, Len(net))
         /\ fed' = Fed(fed, chunk)
         /\ IF Utf8Ok(chunk)
            THEN LET r == DecodeFrames(dbuffer \o chunk, event_queue) IN
                 /\ dbuffer' = r.buffer
                 /\ event_queue' = r.queue
            ELSE /\ dbuffer' = dbuffer
                 /\ event_queue' = Append(event_queue,
                        [type |-> "error", content |-> <<"Unicode decode error: ", BadByte>>])
    /\ UNCHANGED <<frames, dpc, sent>>
    /\ UNCHANGED <<pumpVars, uiVars>>

\* line 23: the response is exhausted; the task goes on to leave the
\* 'async with' statement
EndOfResponse ==
    /\ dpc = "reading"
    /\ net = <<>>
    /\ dpc' = "closing"
    /\ UNCHANGED <<net, dbuffer, event_queue, frames, sent, fed>>
    /\ UNCHANGED <<pumpVars, uiVars>>

\* lines 14 (exit of 'async with') and 52-53: the response and the client
\* are closed, which takes some passes of the event loop, and the task is
\* done
CloseClient ==
    /\ dpc = "closing"
    /\ dpc' = "closed"
    /\ UNCHANGED <<net, dbuffer, event_queue, frames, sent, fed>>
    /\ UNCHANGED <<pumpVars, uiVars>>

DecoderNext == ReceiveChunk \/ EndOfResponse \/ CloseClient

DecoderSpec == DecoderInit /\ [][DecoderNext]_vars

-----------------------------------------------------------------------------
(* The response of the server as the decoder reads it *)

\* Events per response
MaxEvents == 3

\* Events the server may yield: a one-line block, a block with an empty
\* line in it, a block whose text holds the frame prefix and quotes, a block
\* with an indented second line, the error of line 260 and stream_end
ServerEvents ==
    { [type |-> "thought", content |-> <<"x">>],
      [type |-> "observation", content |-> <<"x", NL, NL, "y">>],
      [type |-> "action_input", content |-> <<"data: ", Q, "x", Q>>],
      [type |-> "final_answer_end", content |-> <<"y", NL, WS, "y">>],
      [type |-> "error", content |-> ErrorContent("boom")],
      [type |-> "stream_end"] }

\* lines 138, 256, 260: f"data: {json.dumps(msg)}", before the blank line
sse_data(d) == <<"data: ">> \o json_dumps(d)

\* the server sent the Events of sent, each as one frame, and the decoder
\* reached line 22
RoundTripInit ==
    /\ PumpInit
    /\ AccIdle
    /\ fed = NoHistory
    /\ ticks = <<>>
    /\ sent \in UNION { [1..k -> ServerEvents] : k \in 0..MaxEvents }
    /\ frames = [i \in DOMAIN sent |-> sse_data(sent[i])]
    /\ net = Wire(frames)
    /\ dbuffer = <<>>
    /\ event_queue = <<>>
    /\ dpc = "reading"

RoundTripSpec == RoundTripInit /\ [][DecoderNext]_vars

-----------------------------------------------------------------------------
(* Decoder task: connection and failures *)

\* what the client may raise while the response is opened or read:
\* httpx.TimeoutException, httpx.RequestError, another Exception
TransportErrors == {"timeout", "request", "other"}

\* lines 46-51: the event put for a failure
failure_event(kind) ==
    [type |-> "error",
     content |-> IF kind = "timeout"
                 THEN <<"Request timed out. The agent might be taking too long to respond.">>
                 ELSE IF kind = "request"
                 THEN <<"Connection error: ", "e">>
                 ELSE <<"Unexpected error: ", "e">>]

\* lines 18-19: the events put for a status of 400 or more
backend_error_events ==
    << [type |-> "error", content |-> <<"Backend error: ", "500", " - ", "body">>],
       [type |-> "stream_end"] >>

\* lines 14-16, 22: the backend answered with a status below 400
ResponseOk ==
    /\ dpc = "connecting"
    /\ dpc' = "reading"
    /\ UNCHANGED <<net, dbuffer, event_queue, frames, sent, fed>>
    /\ UNCHANGED <<pumpVars, uiVars>>

\* lines 16-20: the backend answered with a status of 400 or more; the two
\* events are put and the task goes on to leave the 'async with' statement
ResponseError ==
    /\ dpc = "connecting"
    /\ event_queue' = event_queue \o backend_error_events
    /\ fed' = Ended(fed, "500")
    /\ dpc' = "closing"
    /\ UNCHANGED <<net, dbuffer, frames, sent>>
    /\ UNCHANGED <<pumpVars, uiVars>>

\* variant: the exception ends the task and no event is put
TransportFailure_NoEvent ==
    /\ dpc \in {"connecting", "reading"}
    /\ \E kind \in TransportErrors : fed' = Ended(fed, kind)
    /\ dpc' = "closing"
    /\ net' = <<>>
    /\ dbuffer' = <<>>
    /\ UNCHANGED <<event_queue, frames, sent>>
    /\ UNCHANGED <<pumpVars, uiVars>>

\* lines 46-52: opening or reading the response raises; one error event is
\* put and the task goes on to close the client: the rest of the response
\* is not read and the buffer is gone
TransportFailure ==
    /\ dpc \in {"connecting", "reading"}
    /\ \E kind \in TransportErrors :
         /\ event_queue' = Append(event_queue, failure_event(kind))
         /\ fed' = Ended(fed, kind)
    /\ dpc' = "closing"
    /\ net' = <<>>
    /\ dbuffer' = <<>>
    /\ UNCHANGED <<frames, sent>>
    /\ UNCHANGED <<pumpVars, uiVars>>

\* stream_task.done()
task_done == dpc = "closed"

-----------------------------------------------------------------------------
(* Event accumulator: stream_agent_response *)

\* line 82
max_timeout == 300

\* line 160: timeouts after which a stream that gave events is given up
quiet_timeout == 60


\* texts of the user interface; a pictograph is written as its code point
ThoughtLabel == "U+1F4AD Thought: "
ActionLabel == "U+26A1 Action: "
ActionInputLabel == "U+1F4E5 Action Input: "
ObservationLabel == "U+1F50D Observation: "
ErrorLabel == "U+274C Error: "
UiErrorLabel == "U+274C UI Error: "
NoGet == "'int' object has no attribute 'get'"
NoResponse == "No response generated."
CompletedWithLogs == "Agent completed processing. Check the thoughts and observations above."
CompletedEmpty == "Agent completed but no final answer was generated."
CompletedQuiet == "Agent completed. Check the thoughts and observations."
TimedOut == <<NL, NL, "U+23F1 Response timed out.">>
Starting == "U+1F504 Starting agent..."
InvalidQuery == "Please enter a valid query."

\* "\n\n".join(log)
RECURSIVE join2(_)
join2(lg) == IF lg = <<>> THEN <<>>
             ELSE IF Len(lg) = 1 THEN lg[1]
             ELSE lg[1] \o <<NL, NL>> \o join2(Tail(lg))

\* the triple yielded for accumulator a
snapshot(a) == [thoughts |-> join2(a.thoughts_log),
                answer   |-> a.final_answer,
                context  |-> join2(a.context_log)]

\* lines 78-83
acc_init == [thoughts_log |-> <<>>, context_log |-> <<>>, final_answer |-> <<>>,
             timeout_counter |-> 0, received_events |-> FALSE]

acc_now == [thoughts_log |-> thoughts_log, context_log |-> context_log,
            final_answer |-> final_answer, timeout_counter |-> timeout_counter,
            received_events |-> received_events]

\* event.get("type"), event.get("content", ""), for an event that is a dict
type_of(event) == IF "type" \in DOMAIN event THEN event.type ELSE None
content_of(event) == IF "content" \in DOMAIN event THEN event.content ELSE <<>>

\* result of one pass of the loop: the accumulator left, the triple yielded
\* (<<>>: none) and whether the generator goes on to leave the loop
Yielding(a, brk) == [a |-> a, yld |-> <<snapshot(a)>>, brk |-> brk]
Silent(a) == [a |-> a, yld |-> <<>>, brk |-> FALSE]

\* variant: the entry replaces the log
list_append_Replace(lg, entry) == <<entry>>

\* thoughts_log.append(entry), context_log.append(entry)
list_append(lg, entry) == Append(lg, entry)

\* lines 167-172: the pass raised e; the except clause adds its entry and
\* yields a last triple, and the generator goes on to the finally clause
ui_error(a, e) ==
    Yielding([a EXCEPT !.thoughts_log = list_append(@, <<UiErrorLabel, e>>),
                       !.final_answer = IF @ = <<>> THEN <<UiErrorLabel, e>>
                                        ELSE @], TRUE)

\* variant: only the reasoning log is looked at
end_placeholder_ThoughtsOnly(a) ==
    IF a.thoughts_log # <<>> THEN <<CompletedWithLogs>> ELSE <<CompletedEmpty>>

\* lines 141-144: the final answer of a stream that ends without one
end_placeholder(a) ==
    IF a.thoughts_log # <<>> \/ a.context_log # <<>>
    THEN <<CompletedWithLogs>>
    ELSE <<CompletedEmpty>>

\* variant: an error always becomes the final answer
on_event_ErrorOverwrites(event, a) ==
    LET b == [a EXCEPT !.timeout_counter = 0, !.received_events = TRUE]
        content == content_of(event)
        t == type_of(event)
    IN
    IF ~is_dict(event) THEN ui_error(b, NoGet)
    ELSE IF t = "thought"
    THEN Yielding([b EXCEPT !.thoughts_log = list_append(@, <<ThoughtLabel>> \o content)], FALSE)
    ELSE IF t = "action"
    THEN Yielding([b EXCEPT !.thoughts_log = list_append(@, <<ActionLabel>> \o content)], FALSE)
    ELSE IF t = "action_input"
    THEN Yielding([b EXCEPT !.thoughts_log = list_append(@, <<ActionInputLabel>> \o content)], FALSE)
    ELSE IF t = "observation"
    THEN Yielding([b EXCEPT !.context_log = list_append(@, <<ObservationLabel>> \o content)], FALSE)
    ELSE IF t = "final_answer_end"
    THEN Yielding([b EXCEPT !.final_answer = IF strip(content) # <<>> THEN content
                                             ELSE <<NoResponse>>], FALSE)
    ELSE IF t = "error"
    THEN Yielding([b EXCEPT !.thoughts_log = list_append(@, <<ErrorLabel>> \o content),
                            !.final_answer = <<ErrorLabel>> \o content], FALSE)
    ELSE IF t = "stream_end"
    THEN Yielding([b EXCEPT !.final_answer =
                       IF @ # <<>> THEN @ ELSE end_placeholder(b)], TRUE)
    ELSE Silent(b)

\* lines 90-148, 167-172: the pass of the loop for an event got from the
\* queue; an item that is no dict makes event.get raise (line 93)
on_event(event, a) ==
    LET b == [a EXCEPT !.timeout_counter = 0, !.received_events = TRUE]
        content == content_of(event)
        t == type_of(event)
    IN
    IF ~is_dict(event) THEN ui_error(b, NoGet)
    ELSE IF t = "thought"
    THEN Yielding([b EXCEPT !.thoughts_log = list_append(@, <<ThoughtLabel>> \o content)], FALSE)
    ELSE IF t = "action"
    THEN Yielding([b EXCEPT !.thoughts_log = list_append(@, <<ActionLabel>> \o content)], FALSE)
    ELSE IF t = "action_input"
    THEN Yielding([b EXCEPT !.thoughts_log = list_append(@, <<ActionInputLabel>> \o content)], FALSE)
    ELSE IF t = "observation"
    THEN Yielding([b EXCEPT !.context_log = list_append(@, <<ObservationLabel>> \o content)], FALSE)
    ELSE IF t = "final_answer_end"
    THEN Yielding([b EXCEPT !.final_answer = IF strip(content) # <<>> THEN content
                                             ELSE <<NoResponse>>], FALSE)
    ELSE IF t = "error"
    THEN Yielding([b EXCEPT !.thoughts_log = list_append(@, <<ErrorLabel>> \o content),
                            !.final_answer = IF @ = <<>> THEN <<ErrorLabel>> \o content
                                             ELSE @], FALSE)
    ELSE IF t = "stream_end"
    THEN Yielding([b EXCEPT !.final_answer =
                       IF @ # <<>> THEN @ ELSE end_placeholder(b)], TRUE)
    ELSE Silent(b)

\* lines 150-165: the pass of the loop for a wait that timed out
on_timeout(a) ==
    LET b == [a EXCEPT !.timeout_counter = @ + 1] IN
    IF b.timeout_counter >= max_timeout
    THEN Yielding([b EXCEPT !.final_answer = @ \o TimedOut], TRUE)
    ELSE IF ~b.received_events
    THEN Silent(b)
    ELSE IF b.timeout_counter > quiet_timeout
    THEN Yielding([b EXCEPT !.final_answer = IF @ = <<>> THEN <<CompletedQuiet>>
                                             ELSE @], TRUE)
    ELSE Silent(b)

\* entries of the history of waits: a wait that returned an event; the n
\* waits that timed out one after the other since the last event; and waits
\* that timed out before a wait returned an event, whose number is not
\* kept, the event having set the counter to zero (line 90)
GotEvent == [kind |-> "event", n |-> 0]
Timeouts(n) == [kind |-> "timeouts", n |-> n]
Waited == [kind |-> "waited", n |-> 0]

\* history h of the waits with one more timeout, where a history is kept:
\* the timeouts in a row are counted in one entry
RecordTimeout(h) ==
    IF ~fed.waits THEN h
    ELSE IF h # <<>> /\ h[Len(h)].kind = "timeouts"
    THEN [h EXCEPT ![Len(h)] = Timeouts(@.n + 1)]
    ELSE Append(h, Timeouts(1))

\* history h of the waits with one more event got, where a history is kept
RecordGot(h) ==
    IF ~fed.waits THEN h
    ELSE IF h # <<>> /\ h[Len(h)].kind = "timeouts"
    THEN [h EXCEPT ![Len(h)] = Waited] \o <<GotEvent>>
    ELSE Append(h, GotEvent)

\* variant: the newest event of the queue is taken, older ones are dropped
aqueue_get_Newest(q) == [item |-> q[Len(q)], rest |-> <<>>]

\* queue.get() of the asyncio queue: the item removed and the queue left
aqueue_get(q) == [item |-> Head(q), rest |-> Tail(q)]

\* queries given to stream_agent_response
Queries == { <<>>, <<WS>>, <<"q">> }

\* lines 68-73: the query is refused, or the first triple is yielded; the
\* generator is then suspended at line 73, before the task is created
AccStart ==
    /\ apc = "idle"
    /\ \E query \in Queries :
         IF query = <<>> \/ strip(query) = <<>>
         THEN /\ yields' = << [thoughts |-> <<InvalidQuery>>, answer |-> <<>>,
                               context |-> <<>>] >>
              /\ apc' = "done"
              /\ dpc' = dpc
         ELSE /\ yields' = << [thoughts |-> <<Starting>>, answer |-> <<>>,
                               context |-> <<>>] >>
              /\ apc' = "started"
              /\ dpc' = dpc
    /\ UNCHANGED <<thoughts_log, context_log, final_answer, timeout_counter,
                   received_events, applied, ticks>>
    /\ UNCHANGED <<net, dbuffer, event_queue, frames, sent, fed>>
    /\ UNCHANGED pumpVars

\* lines 75-83: the consumer asks for the next triple; the queue and the
\* decoder task are created and the loop is entered
AccCreateTask ==
    /\ apc = "started"
    /\ apc' = "waiting"
    /\ dpc' = "connecting"
    /\ UNCHANGED <<thoughts_log, context_log, final_answer, timeout_counter,
                   received_events, yields, applied, ticks>>
    /\ UNCHANGED <<net, dbuffer, event_queue, frames, sent, fed>>
    /\ UNCHANGED pumpVars

\* variant: the decoder task is left running when the loop is left
cancelling_Never(brk) == FALSE

\* lines 173-179, when the generator leaves (brk): a decoder task not done is
\* cancelled, which ends the reading of the response
cancelling(brk) == brk /\ ~task_done
after_loop(brk) == IF cancelling(brk) THEN "cancelled" ELSE dpc
after_loop_of(brk, x) == IF cancelling(brk) THEN <<>> ELSE x

\* lines 89-148, 167-172: the wait of line 89 returns an event; the pass
\* ends at its yield (or at the next wait, when it yields nothing).  After
\* the last triple the generator is suspended at lines 147 or 172
AccGet ==
    /\ apc = "waiting"
    /\ event_queue # <<>>
    /\ LET g == aqueue_get(event_queue)
           r == on_event(g.item, acc_now)
       IN
       /\ event_queue' = g.rest
       /\ applied' = Append(applied, g.item)
       /\ ticks' = RecordGot(ticks)
       /\ thoughts_log' = r.a.thoughts_log
       /\ context_log' = r.a.context_log
       /\ final_answer' = r.a.final_answer
       /\ timeout_counter' = r.a.timeout_counter
       /\ received_events' = r.a.received_events
       /\ yields' = yields \o r.yld
       /\ apc' = IF r.brk THEN "leaving" ELSE "waiting"
    /\ UNCHANGED <<net, dbuffer, frames, dpc, sent, fed>>
    /\ UNCHANGED pumpVars

\* lines 89, 150-165: the wait of line 89 raises TimeoutError, which it
\* may do with events on the queue (an event put while the two seconds run
\* out stays there); the counter is raised by one and the loop goes on to
\* the next wait, or the pass yields the last triple and the generator is
\* suspended at lines 154 or 163
AccTimeout ==
    /\ apc = "waiting"
    /\ LET r == on_timeout(acc_now) IN
       /\ ticks' = RecordTimeout(ticks)
       /\ thoughts_log' = r.a.thoughts_log
       /\ context_log' = r.a.context_log
       /\ final_answer' = r.a.final_answer
       /\ timeout_counter' = r.a.timeout_counter
       /\ received_events' = r.a.received_events
       /\ yields' = yields \o r.yld
       /\ apc' = IF r.brk THEN "leaving" ELSE "waiting"
    /\ UNCHANGED <<net, dbuffer, dpc>>
    /\ UNCHANGED <<event_queue, frames, sent, fed, applied>>
    /\ UNCHANGED pumpVars

\* lines 148, 155, 164 (break) and 173-179: the consumer asks for the next
\* triple after the last one; the generator leaves the loop, cancels a
\* decoder task that is not done, waits for it and ends
AccFinally ==
    /\ apc = "leaving"
    /\ apc' = "done"
    /\ dpc' = after_loop(TRUE)
    /\ net' = after_loop_of(TRUE, net)
    /\ dbuffer' = after_loop_of(TRUE, dbuffer)
    /\ UNCHANGED <<thoughts_log, context_log, final_answer, timeout_counter,
                   received_events, yields, applied, ticks>>
    /\ UNCHANGED <<event_queue, frames, sent, fed>>
    /\ UNCHANGED pumpVars

\* Events per response read by the user interface
MaxUiEvents == 2

\* what the backend may send where the final answer is looked at: the
\* Events of the server that set it or ask whether a log is empty, and an
\* object of a type the accumulator does not know
UiEvents ==
    { [type |-> "thought", content |-> <<"x">>],
      [type |-> "observation", content |-> <<"x">>],
      [type |-> "final_answer_end", content |-> <<"x">>],
      [type |-> "final_answer_end", content |-> <<WS>>],
      [type |-> "error", content |-> ErrorContent("boom")],
      [type |-> "stream_end"],
      [type |-> "ping", content |-> <<"x">>] }

\* what the backend may send where the logs are looked at: the Events of
\* the server that append to a log, and a JSON text that is no object
LogEvents ==
    { [type |-> "thought", content |-> <<"x">>],
      [type |-> "action", content |-> <<"x">>],
      [type |-> "action_input", content |-> <<"x">>],
      [type |-> "observation", content |-> <<"x">>],
      [type |-> "error", content |-> ErrorContent("boom")],
      [scalar |-> JNumber] }

\* stream_agent_response is about to be called; the backend will answer
\* with the frames of sent
UiInitOf(events, max) ==
    /\ PumpInit
    /\ AccIdle
    /\ sent \in UNION { [1..k -> events] : k \in 0..max }
    /\ frames = [i \in DOMAIN sent |-> sse_data(sent[i])]
    /\ net = Wire(frames)
    /\ dbuffer = <<>>
    /\ event_queue = <<>>
    /\ dpc = "idle"

UiInit == UiInitOf(UiEvents, MaxUiEvents) /\ fed = NoHistory /\ ticks = <<>>

UiNext ==
    \/ AccStart
    \/ AccCreateTask
    \/ ResponseOk
    \/ ResponseError
    \/ TransportFailure
    \/ ReceiveChunk
    \/ EndOfResponse
    \/ CloseClient
    \/ AccGet
    \/ AccTimeout
    \/ AccFinally

UiSpec == UiInit /\ [][UiNext]_vars

LogInit == UiInitOf(LogEvents, MaxUiEvents) /\ fed = NoHistory /\ ticks = <<>>

LogSpec == LogInit /\ [][UiNext]_vars

-----------------------------------------------------------------------------
(* Sessions of the user interface that keep their input history *)

\* Events per response
MaxReplayEvents == 1

ReplayEvents ==
    { [type |-> "thought", content |-> <<"x">>],
      [type |-> "stream_end"] }

ReplayInit ==
    /\ UiInitOf(ReplayEvents, MaxReplayEvents)
    /\ fed = [kept |-> TRUE, waits |-> TRUE, text |-> <<>>, end |-> None]
    /\ ticks = <<>>

\* Events per response that is broken off
MaxFailEvents == 2

FailInit ==
    /\ UiInitOf(ReplayEvents, MaxFailEvents)
    /\ fed = [kept |-> TRUE, waits |-> FALSE, text |-> <<>>, end |-> None]
    /\ ticks = <<>>

\* The event loop runs the accumulator and the decoder task whenever they
\* can go on, the wait of line 89 returns an event or times out, and the
\* consumer asks for every triple; a request that is
\* open ends by an answer or an exception, a response that is read ends, by
\* its last chunk or by an exception (the client has a timeout of 180
\* seconds), and the closing of the client comes to an end.
FairFailSpec ==
    /\ FailInit /\ [][UiNext]_vars
    /\ WF_vars(AccStart)
    /\ WF_vars(AccCreateTask)
    /\ WF_vars(AccTimeout \/ AccGet)
    /\ WF_vars(AccFinally)
    /\ WF_vars(CloseClient)
    /\ WF_vars(ResponseOk \/ ResponseError \/ TransportFailure)
    /\ WF_vars(TransportFailure \/ EndOfResponse \/ ReceiveChunk)

-----------------------------------------------------------------------------
(* Two calls of stream_agent_response on the same response and waits *)

\* the input of the call that runs lies within the input of the first call:
\* the query has given the same first triple (lines 68-73), the text read is
\* a beginning of the text the first decoder task read, the reading has
\* ended only as it ended there, and the waits of line 89 have returned as
\* the first waits of the first call did (where the first call waited and
\* then got an event, timeouts that have not ended the loop)
WaitsWithin(tk, ref, in_loop) ==
    \/ tk = <<>>
    \/ /\ Len(tk) <= Len(ref)
       /\ SubSeq(tk, 1, Len(tk) - 1) = SubSeq(ref, 1, Len(tk) - 1)
       /\ LET e == tk[Len(tk)]
              f == ref[Len(tk)]
          IN \/ e = f
             \/ e.kind = "timeouts" /\ f.kind = "timeouts" /\ e.n <= f.n
             \/ e.kind = "timeouts" /\ f.kind = "waited" /\ in_loop

InputWithin ==
    /\ Len(fed.text) <= Len(first.fed.text)
    /\ fed.text = SubSeq(first.fed.text, 1, Len(fed.text))
    /\ fed.end # None => fed = first.fed
    /\ WaitsWithin(ticks, first.ticks, apc = "waiting")
    /\ yields # <<>> => yields[1] = first.yields[1]

\* the first call has ended, with its decoder task; stream_agent_response
\* is called again, on a new client whose backend gives the same response
SecondCall ==
    /\ ~first.set
    /\ apc = "done"
    /\ dpc \in {"idle", "closed", "cancelled"}
    /\ first' = [set |-> TRUE, fed |-> fed, ticks |-> ticks,
                 events |-> applied \o event_queue, yields |-> yields]
    /\ fed' = [kept |-> TRUE, waits |-> TRUE, text |-> <<>>, end |-> None]
    /\ ticks' = <<>>
    /\ net' = Wire(frames)
    /\ dbuffer' = <<>>
    /\ event_queue' = <<>>
    /\ dpc' = "idle"
    /\ apc' = "idle"
    /\ thoughts_log' = <<>>
    /\ context_log' = <<>>
    /\ final_answer' = <<>>
    /\ timeout_counter' = 0
    /\ received_events' = FALSE
    /\ yields' = <<>>
    /\ applied' = <<>>
    /\ UNCHANGED <<frames, sent>>
    /\ UNCHANGED <<agent_executor, pc, thread, agent_error, exc, buffer,
                   line_queue, capturing, current_tag, current_lines, out,
                   written, log, current_open, current_src, prov, chunks,
                   sys_stdout, sessions>>

\* the first call runs in every way; the second call runs in every way in
\* which the chunks, the end of the response and the waits are those of the
\* first call
TwinNext ==
    \/ UiNext /\ (first.set => InputWithin')
    \/ SecondCall

TwinSpec == ReplayInit /\ [][TwinNext]_vars

-----------------------------------------------------------------------------
(* Sessions whose trace holds tag lines without text and ANSI sequences   *)

\* lines the producer writes in such a session
MaxEmitLines == 3

EmitLineSet == { <<"Entering new", WS, "chain">>,
                 <<"Finished chain.">>,
                 <<"Thought:">>,
                 <<"Thought:", WS, NestedESC>>,
                 <<"Action:", WS, "x">>,
                 <<ESC>>,
                 <<WS>> }

ProducerWriteEmit == ProducerWriteFrom(EmitLineSet, MaxEmitLines)

NextEmit ==
    \/ GetExecutor
    \/ StartThread
    \/ ProducerWriteEmit
    \/ ProducerReturn
    \/ ProducerRaise
    \/ ProducerBlock
    \/ PumpLine
    \/ PumpAfterLoop
    \/ FinalFlush
    \/ YieldStreamEnd
    \/ YieldError
    \/ YieldStreamEndAfterError

EmitSpec == Init /\ [][NextEmit]_vars

-----------------------------------------------------------------------------
(* StreamCapture fed by writes of any size *)

\* calls of write in one session
MaxWrites == 3

\* characters of the string of one call
MaxChunkLen == 2

\* the strings written: any text of "x" and line breaks, the empty string
\* included
ChunkSet == UNION { [1..k -> {"x", NL}] : k \in 0..MaxChunkLen }

\* the producer thread has been started and has written nothing
CaptureInit ==
    /\ agent_executor = "engine"
    /\ pc = "loop"
    /\ thread = "running"
    /\ agent_error = None
    /\ exc = None
    /\ buffer = <<>>
    /\ line_queue = <<>>
    /\ capturing = FALSE
    /\ current_tag = None
    /\ current_lines = <<>>
    /\ out = <<>>
    /\ written = <<>>
    /\ log = <<>>
    /\ current_open = 0
    /\ current_src = <<>>
    /\ prov = <<>>
    /\ chunks = <<>>
    /\ sys_stdout = "original"
    /\ sessions = [i \in SessionIds |-> session_init]
    /\ first = NoCall
    /\ DecoderIdle
    /\ UiIdle

\* a call of stream_capture.write is between two passes of its while loop
\* (line 108): the buffer holds a line break
in_write == FindNL(buffer, 1) # 0

\* lines 102-110: the producer calls stream_capture.write(s); the string is
\* added to the buffer and, if the buffer holds a line break then, the
\* first line is put on the queue.  The call returns (line 112) when the
\* buffer holds no line break
CaptureWrite ==
    /\ thread = "running"
    /\ ~in_write
    /\ Len(chunks) < MaxWrites
    /\ \E s \in ChunkSet :
         LET b == buffer_add(buffer, s) IN
         /\ chunks' = Append(chunks, s)
         /\ IF FindNL(b, 1) = 0
            THEN /\ buffer' = b
                 /\ UNCHANGED <<line_queue, written>>
            ELSE LET r == split_put(b, line_queue, Len(written)) IN
                 /\ buffer' = r.buffer
                 /\ line_queue' = r.queue
                 /\ written' = Append(written, r.line)
    /\ UNCHANGED <<agent_executor, pc, thread, agent_error, exc, capturing,
                   current_tag, current_lines, out, log, current_open,
                   current_src, prov>>
    /\ UNCHANGED <<decVars, sent, fed, uiVars, sys_stdout, sessions, first>>

\* lines 108-110: the next pass of the while loop of a call that has put a
\* line already; the generator may have run since the pass before
CapturePut ==
    /\ thread = "running"
    /\ in_write
    /\ LET r == split_put(buffer, line_queue, Len(written)) IN
       /\ buffer' = r.buffer
       /\ line_queue' = r.queue
       /\ written' = Append(written, r.line)
    /\ UNCHANGED <<agent_executor, pc, thread, agent_error, exc, capturing,
                   current_tag, current_lines, out, log, current_open,
                   current_src, prov, chunks>>
    /\ UNCHANGED <<decVars, sent, fed, uiVars, sys_stdout, sessions, first>>

\* the producer thread writes and the generator takes the lines put
CaptureNext == CaptureWrite \/ CapturePut \/ PumpLine

CaptureSpec == CaptureInit /\ [][CaptureNext]_vars

-----------------------------------------------------------------------------------------------------------------------------------------------------
(* Sessions that overlap: each has its StreamCapture, queue and producer   *)
(* thread; sys.stdout and the agent executor are one per process.  The     *)
(* generators run on the one thread of the event loop, each from one       *)
(* suspension to the next; the producer threads run beside it, and no      *)
(* statement of StreamCapture or redirect_stdout holds a lock, so that a   *)
(* step is one read or one write of sys.stdout, of a buffer or of a queue. *)
(* The classifier of a session is not run here: the lines it is given are  *)
(* kept in got.                                                            *)

\* lines a producer prints in one session
MaxSessionLines == 1

\* the session whose request comes first
FirstSession == "A"

\* the sessions whose engine raises when it has printed its lines
Raising == { "B" }

\* the line of line 123, printed by the generator of a session
InvokingLine == [A |-> <<"Invoking agent with query: 'A'">>,
                 B |-> <<"Invoking agent with query: 'B'">>]

\* the line of line 85, printed by the first call of get_agent_executor
InitializingLine == <<"Initializing agent executor for the first time...">>

\* the line of line 259, printed by the generator after invoke has raised
ErrorLine == [A |-> <<"[ERROR] Agent execution failed: ", "A">>,
              B |-> <<"[ERROR] Agent execution failed: ", "B">>]

\* the lines the producer of a session prints, in order
ProducerLines == [A |-> << <<"Thought:", WS, "a1">>, <<"Thought:", WS, "a2">> >>,
                  B |-> << <<"Thought:", WS, "b1">>, <<"Thought:", WS, "b2">> >>]

\* the calls of write that a call stream.write(s) opens, the innermost
\* last: none that is kept here for the original stream of the process; for
\* a StreamCapture its own call, which passes s to its original first
\* (line 103) and goes on with line 105 when that call has returned
RECURSIVE stream_write(_, _)
stream_write(target, ss) ==
    IF target = "original" THEN <<>>
    ELSE <<[k |-> target, at |-> "105", tmp |-> <<>>]>>
             \o stream_write(ss[target].original, ss)

\* print(line) called by a thread th that goes on at position after: the
\* stream is read from sys.stdout once; the line and then the line break
\* are written to it
print(th, line, after, ss) ==
    IF sys_stdout = "original" THEN [th EXCEPT !.pc = after]
    ELSE [th EXCEPT !.pc = "print", !.after = after, !.file = sys_stdout,
                    !.todo = <<line, <<NL>>>>,
                    !.stack = stream_write(sys_stdout, ss)]

\* line 112: the innermost call of write returns; the call that made it
\* goes on, or print makes its next call, or print returns
write_return(th, ss) ==
    LET st == SubSeq(th.stack, 1, Len(th.stack) - 1) IN
    IF st # <<>> THEN [th EXCEPT !.stack = st]
    ELSE IF Len(th.todo) > 1
    THEN [th EXCEPT !.todo = Tail(@), !.stack = stream_write(th.file, ss)]
    ELSE [th EXCEPT !.pc = th.after, !.file = None, !.todo = <<>>,
                    !.stack = <<>>]

\* line 109 raises ValueError in thread th of role r: the calls of write
\* and print are left; the generator ends by the exception (lines 123, 85
\* and 259 are in no try block that catches it), the producer thread goes
\* to its except clause (line 216)
write_raise(th, r) ==
    [th EXCEPT !.pc = IF r = "g" THEN "failed" ELSE "raised",
               !.file = None, !.todo = <<>>, !.stack = <<>>]

\* the innermost open call of write of thread r of session i
TopCall(i, r) ==
    LET th == sessions[i].th[r] IN th.stack[Len(th.stack)]

\* thread r of session i is in a call of write at position at
InWrite(i, r, at) ==
    /\ sessions[i].th[r].pc = "print"
    /\ sessions[i].th[r].stack # <<>>
    /\ TopCall(i, r).at = at

\* thread th with its innermost call of write at position at, holding tmp
write_goto(th, at, tmp) ==
    [th EXCEPT !.stack[Len(th.stack)].at = at,
               !.stack[Len(th.stack)].tmp = tmp]

\* the event loop runs the generator of session j between two suspensions
Running(j) == sessions[j].th.g.pc \in {"print", "124", "86", "127"}

\* the event loop can take up the generator of session i
LoopFree(i) == \A j \in SessionIds \ {i} : ~Running(j)

SessionUnchanged ==
    UNCHANGED <<pc, thread, agent_error, exc, buffer,
                line_queue, capturing, current_tag, current_lines, out,
                written, log, current_open, current_src, prov, chunks,
                decVars, sent, fed, uiVars, first>>

\* line 123: get_agent_response_stream is called for session i and prints
\* its first line
SessionOpen(i) ==
    /\ sessions[i].th.g.pc = "idle"
    /\ i = FirstSession \/ sessions[FirstSession].th.g.pc # "idle"
    /\ LoopFree(i)
    /\ sessions' = [sessions EXCEPT
                      ![i].th.g = print(@, InvokingLine[i], "124", sessions)]
    /\ UNCHANGED <<sys_stdout, agent_executor>>
    /\ SessionUnchanged

\* line 124, lines 82-85, 90: get_agent_executor; the first call prints a
\* line, a later one returns the executor of the process
SessionExecutor(i) ==
    /\ sessions[i].th.g.pc = "124"
    /\ sessions' = [sessions EXCEPT
          ![i].th.g = IF agent_executor = None
                      THEN print(@, InitializingLine, "86", sessions)
                      ELSE [@ EXCEPT !.pc = "127"]]
    /\ UNCHANGED <<sys_stdout, agent_executor>>
    /\ SessionUnchanged

\* lines 86-90: the first call of get_agent_executor builds the executor
\* and keeps it in _agent_executor
SessionBuildExecutor(i) ==
    /\ sessions[i].th.g.pc = "86"
    /\ agent_executor' = "engine"
    /\ sessions' = [sessions EXCEPT ![i].th.g.pc = "127"]
    /\ UNCHANGED sys_stdout
    /\ SessionUnchanged

\* lines 126-127, 219-220: the queue and the StreamCapture of session i
\* are built around the stream sys.stdout names now, and the producer
\* thread is started; the generator enters its loop
SessionCapture(i) ==
    /\ sessions[i].th.g.pc = "127"
    /\ sessions' = [sessions EXCEPT ![i].original = sys_stdout,
                                    ![i].th.g.pc = "loop",
                                    ![i].th.p.pc = "start"]
    /\ UNCHANGED <<sys_stdout, agent_executor>>
    /\ SessionUnchanged

\* line 213, redirect_stdout.__enter__, first statement: the producer
\* thread keeps the stream sys.stdout names now
SessionEnterSave(i) ==
    /\ sessions[i].th.p.pc = "start"
    /\ sessions' = [sessions EXCEPT ![i].old = sys_stdout,
                                    ![i].th.p.pc = "enter"]
    /\ UNCHANGED <<sys_stdout, agent_executor>>
    /\ SessionUnchanged

\* line 213, redirect_stdout.__enter__, second statement: sys.stdout is
\* set to the StreamCapture of the session
SessionEnter(i) ==
    /\ sessions[i].th.p.pc = "enter"
    /\ sys_stdout' = i
    /\ sessions' = [sessions EXCEPT ![i].th.p.pc = "invoke"]
    /\ UNCHANGED agent_executor
    /\ SessionUnchanged

\* line 214: the engine of session i prints one line of its trace
SessionPrint(i) ==
    /\ sessions[i].th.p.pc = "invoke"
    /\ sessions[i].printed < MaxSessionLines
    /\ sessions' = [sessions EXCEPT
          ![i].printed = @ + 1,
          ![i].th.p = print(@, ProducerLines[i][sessions[i].printed + 1],
                            "invoke", sessions)]
    /\ UNCHANGED <<sys_stdout, agent_executor>>
    /\ SessionUnchanged

\* lines 105-109: a call of write adds its string to the buffer of its
\* StreamCapture and tests the buffer for a line break; with none the call
\* returns (line 112), else the right side of line 109 reads the buffer and
\* splits it.  The interpreter lets another thread run when a call has
\* returned, where a function is entered and at a jump backwards, and so
\* at none of the places between these statements
write_add(i, r) ==
    /\ InWrite(i, r, "105")
    /\ LET c == TopCall(i, r)
           b == buffer_add(sessions[c.k].buffer, Head(sessions[i].th[r].todo))
           ss == [sessions EXCEPT ![c.k].buffer = b]
       IN sessions' = [ss EXCEPT
             ![i].th[r] = IF FindNL(b, 1) # 0
                          THEN write_goto(@, "109s", b)
                          ELSE write_return(@, ss)]
    /\ UNCHANGED <<sys_stdout, agent_executor>>
    /\ SessionUnchanged

\* line 109, left side: split has returned, and the rest of the text it
\* was given is stored as the buffer
write_store(i, r) ==
    /\ InWrite(i, r, "109s")
    /\ LET c == TopCall(i, r)
           p == split_put(c.tmp, <<>>, 0)
       IN sessions' = [sessions EXCEPT
             ![i].th[r] = write_goto(@, "110", p.line),
             ![c.k].buffer = p.buffer]
    /\ UNCHANGED <<sys_stdout, agent_executor>>
    /\ SessionUnchanged

\* line 110: the line is put on the queue of the StreamCapture
write_put(i, r) ==
    /\ InWrite(i, r, "110")
    /\ LET c == TopCall(i, r) IN
       sessions' = [sessions EXCEPT
             ![i].th[r] = write_goto(@, "108", <<>>),
             ![c.k].queue = Append(@, c.tmp)]
    /\ UNCHANGED <<sys_stdout, agent_executor>>
    /\ SessionUnchanged

\* line 108 after a pass of the loop: the test; the call returns (line 112)
\* when the buffer holds no line break, else the loop jumps back
write_test(i, r) ==
    /\ InWrite(i, r, "108")
    /\ sessions' = [sessions EXCEPT
          ![i].th[r] = IF FindNL(sessions[TopCall(i, r).k].buffer, 1) # 0
                       THEN write_goto(@, "109", <<>>)
                       ELSE write_return(@, sessions)]
    /\ UNCHANGED <<sys_stdout, agent_executor>>
    /\ SessionUnchanged

\* line 109, right side, in a later pass of the loop: the buffer is read
\* and split; a buffer that holds no line break by now, another call
\* having taken it since the test, gives one part where two are unpacked,
\* and the statement raises ValueError
write_split(i, r) ==
    /\ InWrite(i, r, "109")
    /\ LET b == sessions[TopCall(i, r).k].buffer IN
       sessions' = [sessions EXCEPT
          ![i].th[r] = IF FindNL(b, 1) # 0
                       THEN write_goto(@, "109s", b)
                       ELSE write_raise(@, r)]
    /\ UNCHANGED <<sys_stdout, agent_executor>>
    /\ SessionUnchanged

\* lines 213-217: invoke returns or raises, or a print of the engine has
\* raised; redirect_stdout.__exit__ sets sys.stdout to the stream kept when
\* it was entered, and the thread ends
SessionExit(i) ==
    /\ sessions[i].th.p.pc \in {"invoke", "raised"}
    /\ sessions' = [sessions EXCEPT
          ![i].th.p.pc = "finished",
          ![i].error = (i \in Raising \/ sessions[i].th.p.pc = "raised")]
    /\ sys_stdout' = sessions[i].old
    /\ UNCHANGED agent_executor
    /\ SessionUnchanged

\* lines 223-226, 235-238: the generator of session i gets a line from its
\* queue and gives it to its classifier
SessionGet(i) ==
    /\ sessions[i].th.g.pc = "loop"
    /\ LoopFree(i)
    /\ sessions[i].queue # <<>>
    /\ LET g == queue_get(sessions[i].queue) IN
       sessions' = [sessions EXCEPT ![i].queue = g.rest,
                                    ![i].got = Append(@, g.item)]
    /\ UNCHANGED <<sys_stdout, agent_executor>>
    /\ SessionUnchanged

\* lines 223, 235, 244-259: the producer thread has ended and the queue is
\* empty; the generator leaves its loops and, if invoke has raised, prints
\* the line of line 259
SessionLeave(i) ==
    /\ sessions[i].th.g.pc = "loop"
    /\ LoopFree(i)
    /\ sessions[i].th.p.pc = "finished"
    /\ sessions[i].queue = <<>>
    /\ sessions' = [sessions EXCEPT
          ![i].th.g = IF sessions[i].error
                      THEN print(@, ErrorLine[i], "done", sessions)
                      ELSE [@ EXCEPT !.pc = "done"]]
    /\ UNCHANGED <<sys_stdout, agent_executor>>
    /\ SessionUnchanged

SessionsNext ==
    \E i \in SessionIds :
        \/ SessionOpen(i)
        \/ SessionExecutor(i)
        \/ SessionBuildExecutor(i)
        \/ SessionCapture(i)
        \/ SessionEnterSave(i)
        \/ SessionEnter(i)
        \/ SessionPrint(i)
        \/ SessionExit(i)
        \/ SessionGet(i)
        \/ SessionLeave(i)
        \/ \E r \in Roles :
              \/ write_add(i, r)
              \/ write_store(i, r)
              \/ write_put(i, r)
              \/ write_test(i, r)
              \/ write_split(i, r)

SessionsSpec == Init /\ [][SessionsNext]_vars

-----
(* Sessions of the user interface whose loop is followed to its end *)

\* items per response
MaxLoopEvents == 2

\* an Event that does not end the stream, stream_end, and an item that
\* makes the pass raise
LoopEvents ==
    { [type |-> "thought", content |-> <<"x">>],
      [type |-> "stream_end"],
      [scalar |-> JNumber] }

LoopInit == UiInitOf(LoopEvents, MaxLoopEvents) /\ fed = NoHistory /\ ticks = <<>>

\* fairness as in FairFailSpec
FairLoopSpec ==
    /\ LoopInit /\ [][UiNext]_vars
    /\ WF_vars(AccStart)
    /\ WF_vars(AccCreateTask)
    /\ WF_vars(AccTimeout \/ AccGet)
    /\ WF_vars(AccFinally)
    /\ WF_vars(CloseClient)
    /\ WF_vars(ResponseOk \/ ResponseError \/ TransportFailure)
    /\ WF_vars(TransportFailure \/ EndOfResponse \/ ReceiveChunk)

-----------------------------------------------------------------------------
(* Fairness: the generator is resumed by its consumer and the producer    *)
(* thread is scheduled; what the producer does next is its own choice.    *)

FairSpec ==
    /\ Init /\ [][Next]_vars
    /\ WF_vars(GetExecutor)
    /\ WF_vars(StartThread)
    /\ WF_vars(PumpLine)
    /\ WF_vars(PumpAfterLoop)
    /\ WF_vars(FinalFlush)
    /\ WF_vars(YieldStreamEnd)
    /\ WF_vars(YieldError)
    /\ WF_vars(YieldStreamEndAfterError)
    /\ WF_vars(ProducerWrite \/ ProducerReturn \/ ProducerRaise \/ ProducerBlock)

-----------------------------------------------------------------------------
(* Vocabulary of the properties *)

NonTerminalTags == {"thought", "action", "action_input", "observation",
                    "final_answer_end"}

StreamEnd == [type |-> "stream_end"]

\* the generator has finished: normally, or with an exception leaving it
Completed == pc \in {"done", "propagated"}

Range(f) == { f[i] : i \in DOMAIN f }

\* kinds of written lines, as the classifier sees them
IsEnteringLine(l) ==
    /\ strip(l) # <<>>
    /\ Contains(clean_line(l), "Entering new")
    /\ Contains(clean_line(l), "chain")
IsFinishedLine(l) ==
    /\ strip(l) # <<>>
    /\ ~IsEnteringLine(l)
    /\ Contains(clean_line(l), "Finished chain.")
IsTagLine(l) ==
    /\ strip(l) # <<>>
    /\ ~IsEnteringLine(l)
    /\ ~IsFinishedLine(l)
    /\ MatchTag(clean_line(l)).tag # None
IsPlainLine(l) == ~IsEnteringLine(l) /\ ~IsFinishedLine(l) /\ ~IsTagLine(l)

TagOfLine(l) == MatchTag(clean_line(l)).tag
RemainderOfLine(l) == MatchTag(clean_line(l)).content

-----------------------------------------------------------------------------
(* C1 *)

\* C1: every session that runs to completion (producer returned, producer
\* raised, or another failure, including a failure of get_agent_executor)
\* has emitted exactly one stream_end frame, and it is the last frame.
C1_OneStreamEndLast ==
    Completed =>
        /\ out # <<>>
        /\ out[Len(out)] = StreamEnd
        /\ Cardinality({ i \in DOMAIN out : out[i].type = "stream_end" }) = 1

-----------------------------------------------------------------------------
(* C2 *)

\* one capture window of single-line blocks, each with a non-blank remainder
OneWindow(ls) ==
    /\ Len(ls) >= 2
    /\ IsEnteringLine(ls[1])
    /\ IsFinishedLine(ls[Len(ls)])
    /\ \A i \in 2..(Len(ls) - 1) : IsTagLine(ls[i]) /\ RemainderOfLine(ls[i]) # <<>>

OnePerTagLine(ls) ==
    [ i \in 1..(Len(ls) - 2) |->
        [type |-> TagOfLine(ls[i + 1]), content |-> RemainderOfLine(ls[i + 1])] ]

\* C2: when the producer wrote one capture window of single-line
\* tag-prefixed lines (as in Scenario A) and returned, the output is one
\* Event per tag-prefixed line, in order, with the mapped tag and the trimmed
\* remainder, followed by stream_end and nothing else.
C2_ScenarioA ==
    (pc = "done" /\ thread = "returned" /\ OneWindow(written))
        => out = OnePerTagLine(written) \o <<StreamEnd>>

-----------------------------------------------------------------------------
(* C3 *)

NoBlockTwice ==
    \A i, j \in DOMAIN prov :
        i < j => Range(prov[i].src) \cap Range(prov[j].src) = {}

NoBlockDropped ==
    \A k \in DOMAIN log :
        (log[k].tag # None /\ strip(log[k].content) # <<>>)
            => \E i \in DOMAIN prov : log[k].n \in Range(prov[i].src)

\* C3: when the producer returned normally, every block collected in
\* current_lines is emitted in exactly one Event of the session: no block
\* content is in two Events and no non-blank block content is dropped.
C3_EachBlockOnce ==
    (pc = "done" /\ thread = "returned") => NoBlockTwice /\ NoBlockDropped

-----------------------------------------------------------------------------
(* C4 *)

\* C4: when the producer raises, the output is the Events of the blocks
\* completed by the lines written before the failure, one per block and in
\* order, then exactly one error Event describing the failure, then
\* stream_end; the failure does not leave the generator.
C4_ProducerRaises ==
    /\ thread = "raised" => pc # "propagated"
    /\ (pc = "done" /\ thread = "raised") =>
         /\ out = ClassifyAll(written, st_init, <<>>).msgs
                    \o << [type |-> "error", content |-> ErrorContent(agent_error)],
                          StreamEnd >>
         /\ Cardinality({ i \in DOMAIN out : out[i].type = "error" }) = 1
         /\ NoBlockTwice

-----------------------------------------------------------------------------
(* C5 *)

\* C5: for every interleaving of producer writes and consumer pops, lines
\* reach the classifier in the order they were written, and the Events
\* appear in the order in which the lines that opened their blocks were
\* written.
C5_ArrivalOrder ==
    /\ \A i, j \in DOMAIN log : i < j => log[i].n < log[j].n
    /\ \A i, j \in DOMAIN prov :
          (i < j /\ prov[i].open > 0 /\ prov[j].open > 0)
              => prov[i].open <= prov[j].open

C5_Witness ==
    \E i, j \in DOMAIN prov :
        i < j /\ 0 < prov[i].open /\ prov[i].open < prov[j].open

-----------------------------------------------------------------------------
(* C6 *)

\* write indices of the lines processed while Idle that are not an
\* 'Entering new ... chain' line
IdleLines == { log[k].n : k \in { k \in DOMAIN log : ~log[k].cap /\ log[k].ret # 155 } }

\* the generator processes the head of the queue, the classifier is Idle
\* and the line is not an 'Entering new ... chain' line
IdleStep ==
    /\ pc = "loop"
    /\ line_queue # <<>>
    /\ log' # log
    /\ ~capturing
    /\ ~IsEnteringLine(Head(line_queue).line)

\* C6: a line processed while Idle that is not an 'Entering new ... chain'
\* line yields no Event, leaves capturing, current_tag and current_lines
\* unchanged, and is never part of the content of an Event.
C6_IdleSilence ==
    [][ /\ IdleStep => /\ out' = out
                       /\ capturing' = capturing
                       /\ current_tag' = current_tag
                       /\ current_lines' = current_lines
        /\ \A i \in DOMAIN prov' : Range(prov'[i].src) \cap IdleLines' = {}
      ]_vars

\* a non-blank line was discarded while Idle and an Event was emitted later
C6_Witness ==
    \E k \in DOMAIN log :
        /\ log[k].ret = 162
        /\ \E i \in DOMAIN prov : prov[i].at > log[k].n

-----------------------------------------------------------------------------
(* C7 *)

\* C7: a non-terminal Event is emitted only while capturing is true at the
\* moment the emission is decided; the final flush emits nothing when
\* capturing is false.
C7_EmitOnlyWhileCapturing ==
    \A i \in DOMAIN out : out[i].type \in NonTerminalTags => prov[i].cap

-----------------------------------------------------------------------------
(* C8 *)

\* the generator processes line n, which closes the block opened by line o:
\* capturing, line o is the tag line that set current_tag, line n is a tag
\* line or a 'Finished chain.' line and the lines between are neither
ClosingStep ==
    /\ pc = "loop"
    /\ line_queue # <<>>
    /\ log' # log
    /\ capturing
    /\ current_open > 0
    /\ LET n == Head(line_queue).n IN
       /\ IsTagLine(written[n]) \/ IsFinishedLine(written[n])
       /\ \A k \in (current_open + 1)..(n - 1) : IsPlainLine(written[k])

\* the lines between the opening line and the line now processed
Between == SubSeq(written, current_open + 1, Head(line_queue).n - 1)

\* the remainder and the k lines, each trimmed, joined and trimmed
ContentAsClaimed ==
    strip(join(<<RemainderOfLine(written[current_open])>>
               \o [k \in DOMAIN Between |-> strip(ansi_escape_sub(Between[k]))]))

\* C8 as stated: the closing line always yields exactly one Event, whose
\* content is the remainder and the k lines, each trimmed, joined with
\* newlines and trimmed as a whole.
C8_Original ==
    [][ ClosingStep =>
          out' = Append(out, [type |-> TagOfLine(written[current_open]),
                              content |-> ContentAsClaimed]) ]_vars

\* a line that holds something else than white space
IsNotBlank(l) == strip(l) # <<>>

\* C8 on blocks of text: the statement of C8 for the blocks whose opening
\* line has a remainder and whose k lines are not blank, where it fails by
\* the order of trimming and ANSI removal (C23) and by an ANSI sequence
\* written inside another (C25).
C8_TextBlocks ==
    [][ ( /\ ClosingStep
          /\ RemainderOfLine(written[current_open]) # <<>>
          /\ \A k \in DOMAIN Between : IsNotBlank(Between[k]) )
        => out' = Append(out, [type |-> TagOfLine(written[current_open]),
                               content |-> ContentAsClaimed]) ]_vars

-----------------------------------------------------------------------------
(* C9 *)

IsPrefixOf(a, b) == Len(a) <= Len(b) /\ a = SubSeq(b, 1, Len(a))

\* a frame carries the prefix and a payload that is valid JSON
HasPrefix(f) == startswith(strip(f), "data: ")
IsWellFormed(f) == HasPrefix(f) /\ json_loads(Tail(strip(f))).ok

\* the payloads of the well-formed frames, in order
RECURSIVE WellFormedEvents(_)
WellFormedEvents(fs) ==
    IF fs = <<>> THEN <<>>
    ELSE (IF IsWellFormed(Head(fs))
          THEN <<json_loads(Tail(strip(Head(fs)))).value>> ELSE <<>>)
         \o WellFormedEvents(Tail(fs))

\* C9: the decoded Events are exactly the frames whose payload is valid JSON
\* after the 'data: ' prefix, in arrival order; a frame with invalid JSON or
\* without the prefix gives no Event and the frames after it are still
\* decoded.
C9_MalformedSkipped ==
    /\ IsPrefixOf(event_queue, WellFormedEvents(frames))
    /\ dpc \in {"closing", "closed"} => event_queue = WellFormedEvents(frames)

\* Scenario C: a frame with invalid JSON, then a valid final_answer_end frame
C9_Witness ==
    /\ dpc = "closed"
    /\ Len(frames) = 2
    /\ HasPrefix(frames[1]) /\ ~IsWellFormed(frames[1])
    /\ IsWellFormed(frames[2])
    /\ event_queue = << [type |-> "final_answer_end", content |-> <<"x">>] >>

-----------------------------------------------------------------------------
(* C10 *)

\* C10: whatever the producer does (returns, raises or keeps running), the
\* generator eventually emits stream_end.
C10_EventuallyStreamEnd ==
    <>(\E i \in DOMAIN out : out[i].type = "stream_end")

-----------------------------------------------------------------------------
(* C11 *)

\* C11: for every sequence of Events the server encodes as 'data: <json>'
\* frames, each followed by a blank line, and every cutting of the response
\* into chunks, the decoder puts exactly the Events sent, in order: what it
\* has put is at any time the Events whose frames it has read completely,
\* and all of them once the response is exhausted.
C11_RoundTrip ==
    /\ IsPrefixOf(event_queue, sent)
    /\ net = <<>> => event_queue = sent

\* an Event whose content holds a blank line was decoded, and the chunk read
\* last ended between the two line breaks that close the next frame
C11_Witness ==
    /\ \E i \in DOMAIN event_queue :
          /\ "content" \in DOMAIN event_queue[i]
          /\ FindNLNL(event_queue[i].content, 1) > 0
    /\ Len(event_queue) < Len(sent)
    /\ dbuffer = sse_data(sent[Len(event_queue) + 1]) \o <<NL>>
    /\ net # <<>> /\ Head(net) = NL

-----------------------------------------------------------------------------
(* C12 *)

-----------------------------------------------------------------------------
(* C13 *)

\* the events put and not yet got, after those got
EventsPut == applied \o event_queue

\* the reading of the response was ended by an exception of the client
Failed == fed.kept /\ fed.end \in TransportErrors

\* C13: when opening or reading the response raises (timeout, connection
\* error or another exception), exactly one error Event is put, after the
\* Events decoded before; the decoder task then closes its client and
\* comes to its end, without an exception of its own (it is cancelled only
\* by the accumulator that has left its loop); and the accumulator loop
\* ends.
C13_TransportFailure ==
    /\ [](Failed =>
            /\ EventsPut = DecodeFrames(fed.text, <<>>).queue
                              \o <<failure_event(fed.end)>>
            /\ Cardinality({ i \in DOMAIN EventsPut : EventsPut[i].type = "error" }) = 1
            /\ dpc \in {"closing", "closed", "cancelled"}
            /\ dpc = "cancelled" => apc = "done")
    /\ Failed ~> (apc = "done" /\ dpc \in {"closed", "cancelled"})

\* the response broke after its first Event; the task closed its client
\* and was done; the accumulator applied the Event and the error and gave
\* up after the waits that followed
C13_Witness ==
    /\ Failed
    /\ apc = "done"
    /\ task_done
    /\ Len(applied) = 2
    /\ type_of(applied[1]) = "thought"
    /\ applied[2] = failure_event(fed.end)
    /\ timeout_counter = quiet_timeout + 1

-----------------------------------------------------------------------------
(* C14 *)

\* the accumulator gets the event at the head of the queue, of type t
Got(t) ==
    /\ apc = "waiting"
    /\ event_queue # <<>>
    /\ applied' = Append(applied, Head(event_queue))
    /\ type_of(Head(event_queue)) = t

\* the content of the event the accumulator gets
GotContent == content_of(Head(event_queue))

\* C14: a final_answer_end Event always sets the final answer, to its
\* content or, when the content is blank, to the 'no response' text,
\* whatever the final answer was before; an error Event appends one entry
\* to the reasoning log and sets the final answer to that entry only when
\* the final answer is empty, leaving it unchanged otherwise.
C14_FinalAnswerAndError ==
    [][ /\ Got("final_answer_end") =>
              final_answer' = IF strip(GotContent) # <<>> THEN GotContent
                              ELSE <<NoResponse>>
        /\ Got("error") =>
              /\ thoughts_log' = Append(thoughts_log, <<ErrorLabel>> \o GotContent)
              /\ final_answer' = IF final_answer = <<>>
                                 THEN <<ErrorLabel>> \o GotContent
                                 ELSE final_answer
      ]_vars

\* a final answer seeded by an error was overwritten by a final_answer_end
\* Event
C14_Witness ==
    /\ Len(applied) = 2
    /\ type_of(applied[1]) = "error"
    /\ applied[2] = [type |-> "final_answer_end", content |-> <<"x">>]
    /\ final_answer = <<"x">>
    /\ Len(thoughts_log) = 1

-----------------------------------------------------------------------------
(* C15 *)

\* the types of an Event
Tags == NonTerminalTags \cup {"error", "stream_end"}

\* an Event was applied
EventApplied == \E i \in DOMAIN applied : type_of(applied[i]) \in Tags

\* stream_end was applied
StreamEndApplied == \E i \in DOMAIN applied : type_of(applied[i]) = "stream_end"

\* C15: when stream_end is applied, a final answer that is set is left
\* unchanged; one that is empty becomes the 'check the thoughts and
\* observations' text exactly when an Event was applied before, and the 'no
\* final answer was generated' text exactly when none was; the final answer
\* is not empty afterwards, the loop is left and no event is applied after
\* stream_end.
C15_StreamEnd ==
    [][ /\ Got("stream_end") =>
              /\ final_answer' = IF final_answer # <<>> THEN final_answer
                                 ELSE IF EventApplied THEN <<CompletedWithLogs>>
                                 ELSE <<CompletedEmpty>>
              /\ final_answer' # <<>>
              /\ apc' = "leaving"
        /\ StreamEndApplied => applied' = applied
      ]_vars

\* stream_end was applied after an observation and no final answer; an
\* event put after stream_end stays in the queue
C15_Witness ==
    /\ Len(applied) = 2
    /\ type_of(applied[1]) = "observation"
    /\ type_of(applied[2]) = "stream_end"
    /\ final_answer = <<CompletedWithLogs>>
    /\ event_queue # <<>>
    /\ apc = "done"

-----------------------------------------------------------------------------
(* C16 *)

\* the text put before the content of an Event of type t
LabelOf(t) == IF t = "thought" THEN ThoughtLabel
              ELSE IF t = "action" THEN ActionLabel
              ELSE IF t = "action_input" THEN ActionInputLabel
              ELSE ObservationLabel

\* C16: the reasoning log and the evidence log only grow at their end: no
\* step changes or removes an entry; a thought, action or action_input
\* Event appends exactly one entry (its label and content) to the reasoning
\* log and leaves the evidence log and the final answer unchanged; an
\* observation Event appends exactly one entry to the evidence log and
\* leaves the reasoning log and the final answer unchanged.
C16_AppendOnly ==
    [][ /\ IsPrefixOf(thoughts_log, thoughts_log')
        /\ IsPrefixOf(context_log, context_log')
        /\ \A t \in {"thought", "action", "action_input"} :
              Got(t) => /\ thoughts_log' = Append(thoughts_log, <<LabelOf(t)>> \o GotContent)
                        /\ context_log' = context_log
                        /\ final_answer' = final_answer
        /\ Got("observation") =>
              /\ context_log' = Append(context_log, <<LabelOf("observation")>> \o GotContent)
              /\ thoughts_log' = thoughts_log
              /\ final_answer' = final_answer
      ]_vars

\* an observation was applied after an action_input, each log holding its
\* one entry
C16_Witness ==
    /\ Len(applied) = 2
    /\ type_of(applied[1]) = "action_input"
    /\ type_of(applied[2]) = "observation"
    /\ thoughts_log = << <<ActionInputLabel, "x">> >>
    /\ context_log = << <<ObservationLabel, "x">> >>
    /\ final_answer = <<>>

-----------------------------------------------------------------------------
(* C17 *)

\* the classifier holds a block that a flush would emit
PendingBlock == flush_current(current_tag, current_lines) # <<>>

\* the block the classifier holds is in an Event of the output
PendingBlockEmitted ==
    \E i \in DOMAIN out :
        /\ out[i] = flush_current(current_tag, current_lines)[1]
        /\ prov[i].open = current_open
        /\ prov[i].src = current_src

\* C17: when the producer raised while the classifier held a pending
\* block, the session still flushes it: at the end the block is in an Event
\* that precedes stream_end.
C17_FlushOnRaise ==
    (pc = "done" /\ thread = "raised" /\ PendingBlock) => PendingBlockEmitted

-----------------------------------------------------------------------------
(* C18 *)

\* the loop of lines 223-232 has been left
LoopLeft == pc \in {"flush", "end", "done", "except", "except_end"}
               /\ thread # "unstarted"

\* C18: for every interleaving of the producer thread and the consumer
\* loop, the loop is left only when the thread has finished and the queue
\* is empty; and when stream_end is emitted every line the producer put
\* has been got and passed to process_line exactly once: the lines
\* processed are the lines written, each once, and no line is in the queue.
C18_LoopExit ==
    /\ LoopLeft => (~is_alive /\ line_queue = <<>>)
    /\ (LoopLeft /\ \E i \in DOMAIN out : out[i] = StreamEnd) =>
          /\ line_queue = <<>>
          /\ [k \in DOMAIN log |-> log[k].n] = [k \in DOMAIN written |-> k]

\* a session ended with stream_end after the producer wrote MaxLines lines,
\* of which a thought block was emitted
C18_Witness ==
    /\ pc = "done"
    /\ thread = "returned"
    /\ Len(written) = MaxLines
    /\ Len(log) = MaxLines
    /\ \E i \in DOMAIN out : out[i] = StreamEnd
    /\ \E i \in DOMAIN out : out[i].type = "thought"

-----------------------------------------------------------------------------
(* C19 *)

\* the generator processes an 'Entering new ... chain' line
EnteringStep ==
    /\ pc = "loop"
    /\ line_queue # <<>>
    /\ log' # log
    /\ IsEnteringLine(Head(line_queue).line)

\* write indices of the 'Entering new ... chain' lines processed
EnteringLines == { log[k].n : k \in { k \in DOMAIN log : log[k].ret = 155 } }

\* C19: processing an 'Entering new ... chain' line leaves current_tag
\* none and current_lines empty, and no Event yielded by a line after it
\* holds content collected before it.
C19_EnteringResets ==
    [][ /\ EnteringStep => (current_tag' = None /\ current_lines' = <<>>)
        /\ \A i \in DOMAIN prov' : \A e \in EnteringLines' :
              prov'[i].at > e => \A n \in Range(prov'[i].src) : n > e
      ]_vars

-----------------------------------------------------------------------------
(* C20 *)

\* the line with ANSI sequences and surrounding white space removed
Trimmed(l) == strip(ansi_escape_sub(l))

\* the generator, Capturing, processes a line that is not empty, holds no
\* boundary marker and starts with no tag prefix
ContinuationStep ==
    /\ pc = "loop"
    /\ line_queue # <<>>
    /\ log' # log
    /\ capturing
    /\ Trimmed(Head(line_queue).line) # <<>>
    /\ IsPlainLine(Head(line_queue).line)

\* write indices of the continuation lines processed with current_tag set
\* (tagged = TRUE) or unset
ContinuationLines(tagged) ==
    { log[k].n : k \in { k \in DOMAIN log :
                            /\ log[k].ret = 204
                            /\ Trimmed(written[log[k].n]) # <<>>
                            /\ (log[k].tag # None) = tagged } }

\* C20: while Capturing, a non-empty line without boundary marker and tag
\* prefix yields no Event; with current_tag set the trimmed line is appended
\* to current_lines and, in a session that ends normally, it is in an Event
\* of the block; with current_tag unset it is in no Event.
C20_Continuation ==
    [][ /\ ContinuationStep =>
              /\ out' = out
              /\ current_tag # None =>
                    current_lines' = Append(current_lines,
                                            Trimmed(Head(line_queue).line))
        /\ \A i \in DOMAIN prov' :
              Range(prov'[i].src) \cap ContinuationLines(FALSE)' = {}
        /\ (pc' = "done" /\ thread' = "returned") =>
              \A n \in ContinuationLines(TRUE)' :
                  \E i \in DOMAIN prov' : n \in Range(prov'[i].src)
      ]_vars

-----------------------------------------------------------------------------
(* C21 *)

\* the accumulator loop was entered and left
AccLoopLeft == apc = "done" /\ yields[1].thoughts # <<InvalidQuery>>

\* the wait of line 89 times out: the pass of lines 150-165 runs
WaitTimesOut == apc = "waiting" /\ timeout_counter' = timeout_counter + 1

\* C21: the accumulator loop always ends; the pass that applies stream_end
\* leaves it; a pass for a timeout leaves it exactly when the count of
\* timeouts in a row has come above 60 with an event received, or to 300,
\* so that the loop never waits with a higher count; every item got sets
\* the count to zero; and when the generator has left the loop and ended,
\* the decoder task is done or cancelled.
C21_LoopEnds ==
    /\ <>(apc = "done")
    /\ [](apc = "waiting" =>
            /\ timeout_counter < max_timeout
            /\ received_events => timeout_counter <= quiet_timeout)
    /\ [](AccLoopLeft => dpc \in {"closed", "cancelled"})
    /\ [][ /\ applied' # applied => timeout_counter' = 0
           /\ Got("stream_end") => apc' = "leaving"
           /\ WaitTimesOut =>
                (apc' = "leaving" <=>
                    \/ timeout_counter' >= max_timeout
                    \/ received_events /\ timeout_counter' > quiet_timeout)
         ]_vars

\* the loop was left by the 61st timeout after a thought, the response
\* being still open: the decoder task was cancelled
C21_Witness ==
    /\ AccLoopLeft
    /\ Len(applied) = 1
    /\ type_of(applied[1]) = "thought"
    /\ ~StreamEndApplied
    /\ timeout_counter = quiet_timeout + 1
    /\ dpc = "cancelled"

-----------------------------------------------------------------------------
(* C22 *)

\* the strings of cs, concatenated
RECURSIVE Concat(_)
Concat(cs) == IF cs = <<>> THEN <<>> ELSE Head(cs) \o Concat(Tail(cs))

\* the positions of the line breaks of text t, in increasing order
RECURSIVE Breaks(_, _)
Breaks(t, i) == IF i > Len(t) THEN <<>>
                ELSE IF t[i] = NL THEN <<i>> \o Breaks(t, i + 1)
                ELSE Breaks(t, i + 1)

\* the segments of text t that a line break ends, in order, without the
\* line break
Segments(t) ==
    LET b == Breaks(t, 1) IN
    [k \in DOMAIN b |-> SubSeq(t, (IF k = 1 THEN 0 ELSE b[k - 1]) + 1, b[k] - 1)]

\* the text after the last line break of t
Remainder(t) ==
    LET b == Breaks(t, 1) IN
    SubSeq(t, (IF b = <<>> THEN 0 ELSE b[Len(b)]) + 1, Len(t))

\* the lines ls, each followed by a line break, as one text
RECURSIVE LinesText(_)
LinesText(ls) == IF ls = <<>> THEN <<>>
                 ELSE Head(ls) \o <<NL>> \o LinesText(Tail(ls))

\* C22: whatever the strings of the write calls, the lines put on the queue
\* are the segments of the concatenated text that a line break ends, in
\* order, each put once, and the generator gets them in that order; the
\* lines put and the buffer make up the text written; after every write
\* (when the call has returned) every such segment has been put, the buffer
\* is the text after the last line break, it holds no line break and it is
\* not on the queue as a line of its own.
C22_Chunking ==
    LET text == Concat(chunks)
        taken == Len(log)
    IN
    /\ Len(written) <= Len(Segments(text))
    /\ written = SubSeq(Segments(text), 1, Len(written))
    /\ text = LinesText(written) \o buffer
    /\ Len(line_queue) = Len(written) - taken
    /\ \A i \in DOMAIN line_queue :
           /\ line_queue[i].n = taken + i
           /\ line_queue[i].line = written[taken + i]
    /\ \A i \in DOMAIN log : log[i].n = i
    /\ ~in_write =>
           /\ written = Segments(text)
           /\ buffer = Remainder(text)
           /\ Len(written) = Len(Breaks(text, 1))

\* a line was written in two calls, the second of which holds two line
\* breaks: the line begun by the first call was put and the generator took
\* it while the second call had not yet put its empty line
C22_Witness ==
    /\ chunks = << <<"x">>, <<NL, NL>> >>
    /\ written = << <<"x">> >>
    /\ buffer = <<NL>>
    /\ line_queue = <<>>
    /\ Len(log) = 1

-----------------------------------------------------------------------------
(* C23 *)

\* the generator passes the line at the head of the queue to process_line
ClassifyStep ==
    /\ pc = "loop"
    /\ line_queue # <<>>
    /\ log' # log

\* C23: the classifier does with a raw line what it does with the line
\* whose ANSI sequences were removed and whose surrounding white space was
\* trimmed afterwards: the same classifier state is left and the same
\* frame, if any, is yielded; so a line empty after both steps changes
\* nothing, and a line that begins with a tag prefix or holds a boundary
\* marker after both steps is taken as that tag line or boundary.
C23_CleanThenTrim ==
    [][ ClassifyStep =>
          LET r == process_line(Trimmed(Head(line_queue).line), st_now) IN
          /\ capturing' = r.st.capturing
          /\ current_tag' = r.st.current_tag
          /\ current_lines' = r.st.current_lines
          /\ out' = out \o r.msg
      ]_vars

-----------------------------------------------------------------------------
(* C24 *)

\* the words only the producer of session i prints
WordsOf(i) ==
    UNION { Range(ProducerLines[i][n]) : n \in DOMAIN ProducerLines[i] }
        \ {"Thought:", WS}

\* the line l holds text the producer of session j printed
HoldsTextOf(l, j) == Range(l) \cap WordsOf(j) # {}

\* the lines put on the queue of session i so far
LinesPut(i) == Range(sessions[i].got) \cup Range(sessions[i].queue)

\* C24: with two sessions at the same time, a line printed by the producer
\* of a session is put on the queue of that session only, so that the
\* classifier of a session gets no text of the other session; and once
\* both producers have finished, sys.stdout is the original stream again.
C24_Isolation ==
    /\ \A i \in SessionIds : \A j \in SessionIds \ {i} :
           /\ \A l \in LinesPut(i) : ~HoldsTextOf(l, j)
           /\ \A l \in Range(sessions[i].got) : ~HoldsTextOf(l, j)
    /\ (\A i \in SessionIds : sessions[i].th.p.pc = "finished")
           => sys_stdout = "original"

-----------------------------------------------------------------------------
(* C25 *)

\* the frame yielded for the dict d: f"data: {json.dumps(d)}\n\n"
FrameText(d) == sse_data(d) \o <<NL, NL>>

\* the frame of d has the form 'data: <json>' followed by a blank line,
\* and its JSON text is that of d
WellFramed(d) ==
    LET t == FrameText(d) IN
    /\ t[1] = "data: "
    /\ SubSeq(t, Len(t) - 1, Len(t)) = <<NL, NL>>
    /\ FindNLNL(t, 1) = Len(t) - 1
    /\ decode_frame(SubSeq(t, 1, Len(t) - 2)) = <<d>>

\* the block of frame i was opened by a tag line with some text after the
\* prefix, or holds a continuation line that is not blank
BlockHasText(i) ==
    \/ RemainderOfLine(written[prov[i].open]) # <<>>
    \/ \E n \in Range(prov[i].src) :
          n # prov[i].open /\ Trimmed(written[n]) # <<>>

\* C25: every frame the pump yields is 'data: <json>' followed by a blank
\* line, with a type among the seven tag strings; every frame but stream_end
\* has a content field; every frame made by the classifier has a content
\* that is not empty, and none is made for a tag line without text that no
\* non-blank continuation line follows.
C25_Frames ==
    \A i \in DOMAIN out :
        /\ WellFramed(out[i])
        /\ out[i].type \in Tags
        /\ out[i].type # "stream_end" => "content" \in DOMAIN out[i]
        /\ out[i].type \in NonTerminalTags =>
              /\ out[i].content # <<>>
              /\ BlockHasText(i)

=============================================================================
